---- MODULE Spec2Model ----
(***************************************************************************)
(* A model of scylla_fdw: the modify planner and the CQL statement         *)
(* builders (scylla_fdw_modify.c, scylla_deparse.c), the modify and scan   *)
(* executors, the predicate classifier with the ALLOW FILTERING policy,    *)
(* the option validator, and the decimal, timestamp and date conversions   *)
(* of the type codec.                                                      *)
(*                                                                         *)
(* C strings are sequences of one-character strings.  A generated          *)
(* statement is the sequence of the pieces appended to its StringInfo:     *)
(* the fixed pieces ("UPDATE ", " = ?", ...) are one element each, the     *)
(* characters of an identifier are one element each.                       *)
(***************************************************************************)
EXTENDS Integers, Sequences, FiniteSets, TLC

VARIABLES
    kind,         \* which state machine this behaviour drives
    rel,          \* the foreign table: tuple descriptor and table options
    operation,    \* CmdType of the statement being planned and executed
    pc,           \* the host's position in the FDW callback protocol
    fdw_private,  \* what the planner hands to the executor
    fmstate,      \* ScyllaFdwModifyState (resultRelInfo->ri_FdwState)
    fsstate,      \* ScyllaFdwScanState (node->fdw_state)
    drv,          \* the driver and the remote: handles, submissions, releases
    host,         \* what the host passed in and got back: rows, call counts
    clauses,      \* the classifier's input and output, and the SELECT built
    codec         \* a wire value and what the codec made of it

vars == <<kind, rel, operation, pc, fdw_private, fmstate, fsstate, drv, host, clauses, codec>>

(***************************************************************************)
(* Bounds of the model.                                                    *)
(***************************************************************************)
MaxAtts == 3      \* columns of a foreign table
MaxKey == 2       \* columns named by the primary_key option
MaxRows == 2      \* rows one modify executor executes, rows of a result
MaxCloses == 2    \* calls of an executor's End callback
MaxRescans == 1   \* rescans of one scan
MaxFetches == 6   \* calls of a scan's Iterate callback

(***************************************************************************)
(* C strings.                                                              *)
(***************************************************************************)
NullStr == <<"NULL">>          \* the NULL char pointer: no string has this element

Min(S) == CHOOSE x \in S : \A y \in S : x <= y

RECURSIVE SeqsOver(_, _)
\* the sequences of distinct elements of S of length 1..n
SeqsOver(S, n) ==
    IF n = 0 THEN {}
    ELSE LET shorter == SeqsOver(S, n - 1)
         IN  {<<x>> : x \in S} \cup shorter
             \cup {Append(s, x) : s \in shorter, x \in S}

Distinct(s) == \A i, j \in 1..Len(s) : i # j => s[i] # s[j]

DistinctSeqs(S, n) == {s \in SeqsOver(S, n) : Distinct(s)}

RECURSIVE JoinWith(_, _)
\* the loop "if (!first) append(sep); append(item); first = false"
JoinWith(items, sep) ==
    IF items = <<>> THEN <<>>
    ELSE IF Len(items) = 1 THEN items[1]
    ELSE items[1] \o sep \o JoinWith(Tail(items), sep)

RECURSIVE SetToSeq(_)
\* the elements of a set of integers in increasing order
SetToSeq(S) == IF S = {} THEN <<>> ELSE <<Min(S)>> \o SetToSeq(S \ {Min(S)})

(***************************************************************************)
(* The catalog: tuple descriptors and table options.                       *)
(***************************************************************************)
OPT_KEYSPACE == "keyspace"
OPT_TABLE == "table"
OPT_PRIMARY_KEY == "primary_key"

CMD_INSERT == "CMD_INSERT"
CMD_UPDATE == "CMD_UPDATE"
CMD_DELETE == "CMD_DELETE"
CMD_SELECT == "CMD_SELECT"

Attr(name, dropped) == [attname |-> name, attisdropped |-> dropped]

LiveNames == {<<"a">>, <<"i", "d">>, <<"k", "2">>}
\* a dropped column keeps its slot; its name becomes "........pg.dropped.N........"
DroppedName == <<".">>
Attrs == {Attr(n, FALSE) : n \in LiveNames} \cup {Attr(DroppedName, TRUE)}
TupleDescs == DistinctSeqs(Attrs, MaxAtts)

\* the columns a primary_key option may name; "z" is a column no table has
KeyNames == {<<"i", "d">>, <<"k", "2">>, <<"z">>}
KeyLists == DistinctSeqs(KeyNames, MaxKey)
KeyStyles == {"tight", "spaced"}

\* how a user writes the key list K in the option: 'id,k2' or ' id , k2 '
RenderKey(K, style) ==
    IF style = "tight" THEN JoinWith(K, <<",">>)
    ELSE <<" ">> \o JoinWith(K, <<" ", ",", " ">>) \o <<" ">>

DefElem(name, arg) == [defname |-> name, arg |-> arg]

BaseOptions == <<DefElem(OPT_KEYSPACE, <<"k", "s">>), DefElem(OPT_TABLE, <<"t", "b", "l">>)>>

\* rel.key is the key as the user declared it (<<>> with no primary_key option);
\* the code sees only rel.options
Relations ==
    {[tupdesc |-> td, options |-> BaseOptions, haskey |-> FALSE, key |-> <<>>] :
        td \in TupleDescs}
    \cup {[tupdesc |-> td,
           options |-> Append(BaseOptions, DefElem(OPT_PRIMARY_KEY, RenderKey(K, st))),
           haskey |-> TRUE, key |-> K] :
        td \in TupleDescs, K \in KeyLists, st \in KeyStyles}

natts(r) == Len(r.tupdesc)

\* the loop over table->options looking for one option; defGetString of the first hit
GetOption(options, name) ==
    LET hits == {i \in 1..Len(options) : options[i].defname = name}
    IN  IF hits = {} THEN NullStr ELSE options[Min(hits)].arg

\* the loop over the tuple descriptor comparing attname; 0 when no column matches
AttnumOf(tupdesc, colname) ==
    LET hits == {i \in 1..Len(tupdesc) : tupdesc[i].attname = colname}
    IN  IF hits = {} THEN 0 ELSE Min(hits)

(***************************************************************************)
(* Parsing the primary_key option: strtok_r on "," and trimming of blanks. *)
(***************************************************************************)
RECURSIVE strtok_r(_)
\* every token strtok_r(str, ",") returns, in order: the maximal comma-free runs
strtok_r(str) ==
    IF str = <<>> THEN <<>>
    ELSE IF Head(str) = "," THEN strtok_r(Tail(str))
    ELSE LET commas == {i \in 1..Len(str) : str[i] = ","}
             n == IF commas = {} THEN Len(str) + 1 ELSE Min(commas)
         IN  <<SubSeq(str, 1, n - 1)>> \o strtok_r(SubSeq(str, n + 1, Len(str)))

RECURSIVE TrimLeft(_)
\* while (*token == ' ') token++;
TrimLeft(token) ==
    IF token # <<>> /\ Head(token) = " " THEN TrimLeft(Tail(token)) ELSE token

RECURSIVE TrimRight(_)
\* end = token + strlen(token) - 1; while (end > token && *end == ' ') *end-- = '\0';
TrimRight(token) ==
    IF Len(token) > 1 /\ token[Len(token)] = " "
    THEN TrimRight(SubSeq(token, 1, Len(token) - 1))
    ELSE token

Trim(token) == TrimRight(TrimLeft(token))

\* the trimmed tokens of a primary_key string
PkTokens(pk_str) ==
    LET toks == strtok_r(pk_str) IN [i \in 1..Len(toks) |-> Trim(toks[i])]

(***************************************************************************)
(* Identifier quoting and the INSERT / UPDATE / DELETE statement builders. *)
(***************************************************************************)
LowerChars == {"a", "b", "c", "d", "e", "f", "g", "h", "i", "j", "k", "l", "m",
               "n", "o", "p", "q", "r", "s", "t", "u", "v", "w", "x", "y", "z"}
DigitChars == {"0", "1", "2", "3", "4", "5", "6", "7", "8", "9"}

\* the scan that sets need_quotes
NeedQuotes(ident) ==
    IF ident = <<>> \/ ~(ident[1] \in LowerChars \/ ident[1] = "_")
    THEN TRUE
    ELSE \E i \in 1..Len(ident) :
            ~(ident[i] \in LowerChars \/ ident[i] \in DigitChars \/ ident[i] = "_")

RECURSIVE DoubleQuotes(_)
DoubleQuotes(ident) ==
    IF ident = <<>> THEN <<>>
    ELSE (IF Head(ident) = "\"" THEN <<"\"", "\"">> ELSE <<Head(ident)>>)
         \o DoubleQuotes(Tail(ident))

\* a quoting that wraps the identifier and leaves its double quotes single
QuoteWithoutDoubling(ident) ==
    IF ~NeedQuotes(ident) THEN ident
    ELSE <<"\"">> \o ident \o <<"\"">>

cql_quote_identifier(ident) ==
    IF ~NeedQuotes(ident) THEN ident
    ELSE <<"\"">> \o DoubleQuotes(ident) \o <<"\"">>

\* "<op> ks.tbl": the keyspace and table options, quoted
QualifiedName(r) ==
    cql_quote_identifier(GetOption(r.options, OPT_KEYSPACE)) \o <<".">>
    \o cql_quote_identifier(GetOption(r.options, OPT_TABLE))

ColName(r, attnum) == cql_quote_identifier(r.tupdesc[attnum].attname)

\* "col = ?" for each attribute of attrs
Assignments(r, attrs) == [i \in 1..Len(attrs) |-> ColName(r, attrs[i]) \o <<" = ?">>]

scylla_build_insert_query(r, target_attrs) ==
    <<"INSERT INTO ">> \o QualifiedName(r) \o <<" (">>
    \o JoinWith([i \in 1..Len(target_attrs) |-> ColName(r, target_attrs[i])], <<", ">>)
    \o <<") VALUES (">>
    \o JoinWith([i \in 1..Len(target_attrs) |-> <<"?">>], <<", ">>)
    \o <<")">>

\* a SET loop without the "skip primary key columns" test
SetAttrsKeepingKeys(target_attrs, pk_attrs) == target_attrs

\* the target attributes the SET loop keeps: those that are no pk_attrs[i]
SetAttrs(target_attrs, pk_attrs) ==
    LET keep == {i \in 1..Len(target_attrs) :
                    \A j \in 1..Len(pk_attrs) : pk_attrs[j] # target_attrs[i]}
        idx == SetToSeq(keep)
    IN  [i \in 1..Len(idx) |-> target_attrs[idx[i]]]

scylla_build_update_query(r, target_attrs, pk_attrs) ==
    <<"UPDATE ">> \o QualifiedName(r) \o <<" SET ">>
    \o JoinWith(Assignments(r, SetAttrs(target_attrs, pk_attrs)), <<", ">>)
    \o <<" WHERE ">>
    \o JoinWith(Assignments(r, pk_attrs), <<" AND ">>)

scylla_build_delete_query(r, pk_attrs) ==
    <<"DELETE FROM ">> \o QualifiedName(r) \o <<" WHERE ">>
    \o JoinWith(Assignments(r, pk_attrs), <<" AND ">>)

(***************************************************************************)
(* Planning a modification.                                                *)
(***************************************************************************)
\* scyllaAddForeignUpdateTargets without its two ereport(ERROR) exits
AddTargetsUnchecked(r) ==
    LET pk_str == GetOption(r.options, OPT_PRIMARY_KEY)
        pk_cols == IF pk_str = NullStr THEN <<>> ELSE PkTokens(pk_str)
    IN  [error |-> "", junk |-> [i \in 1..Len(pk_cols) |-> AttnumOf(r.tupdesc, pk_cols[i])]]

\* scyllaAddForeignUpdateTargets: the attribute numbers added as row-identity
\* (junk) columns, or the error it raises
scyllaAddForeignUpdateTargets(r) ==
    LET pk_str == GetOption(r.options, OPT_PRIMARY_KEY)
        pk_cols == PkTokens(pk_str)
        attnums == [i \in 1..Len(pk_cols) |-> AttnumOf(r.tupdesc, pk_cols[i])]
    IN  IF pk_str = NullStr
        THEN [error |-> "primary_key option must be specified", junk |-> <<>>]
        ELSE IF \E i \in 1..Len(attnums) : attnums[i] = 0
        THEN [error |-> "primary key column not found", junk |-> <<>>]
        ELSE [error |-> "", junk |-> attnums]

\* the non-dropped attribute numbers, in attribute order
NonDropped(r) ==
    LET live == SetToSeq({i \in 1..natts(r) : ~r.tupdesc[i].attisdropped})
    IN  live

\* the pk_attrs array scyllaPlanForeignModify builds: tokens that match no
\* column are skipped; no primary_key option gives the empty array
PlanPkAttrs(r) ==
    LET pk_str == GetOption(r.options, OPT_PRIMARY_KEY)
        pk_cols == IF pk_str = NullStr THEN <<>> ELSE PkTokens(pk_str)
        found == SetToSeq({i \in 1..Len(pk_cols) : AttnumOf(r.tupdesc, pk_cols[i]) # 0})
    IN  [i \in 1..Len(found) |-> AttnumOf(r.tupdesc, pk_cols[found[i]])]

\* targetAttrs: every non-dropped column for INSERT and for UPDATE, none for DELETE
PlanTargetAttrs(r, op) ==
    IF op \in {CMD_INSERT, CMD_UPDATE} THEN NonDropped(r) ELSE <<>>

\* scyllaPlanForeignModify: fdw_private = (query, targetAttrs, operation)
scyllaPlanForeignModify(r, op) ==
    LET targetAttrs == PlanTargetAttrs(r, op)
        sql == CASE op = CMD_INSERT -> scylla_build_insert_query(r, targetAttrs)
                 [] op = CMD_UPDATE -> scylla_build_update_query(r, targetAttrs, PlanPkAttrs(r))
                 [] op = CMD_DELETE -> scylla_build_delete_query(r, PlanPkAttrs(r))
    IN  [query |-> sql, target_attrs |-> targetAttrs, operation |-> op]

NoPlan == [query |-> <<>>, target_attrs |-> <<>>, operation |-> "none"]

(***************************************************************************)
(* Expression trees.  Every node is a record of one shape:                 *)
(*   Var          att = varattno, rel = varno, typ = vartype               *)
(*   Const        typ = consttype, name = the output-function text         *)
(*   OpExpr       name = oprname, ns = oprnamespace, args                  *)
(*   BoolExpr     name = boolop (AND_EXPR, OR_EXPR, NOT_EXPR), args        *)
(*   NullTest, RelabelType, ScalarArrayOpExpr (isnull = useOr), FuncExpr   *)
(***************************************************************************)
Node(tag, name, ns, typ, att, relid, isnull, args) ==
    [tag |-> tag, name |-> name, ns |-> ns, typ |-> typ, att |-> att,
     rel |-> relid, isnull |-> isnull, args |-> args]

PG_CATALOG_NAMESPACE == "pg_catalog"
BaseRelid == 1          \* the varno of the foreign table being scanned

Var(relid, att, typ) == Node("Var", <<>>, "", typ, att, relid, FALSE, <<>>)
Const(typ, extval) == Node("Const", extval, "", typ, 0, 0, FALSE, <<>>)
NullConst(typ) == Node("Const", <<>>, "", typ, 0, 0, TRUE, <<>>)
OpExpr(oprname, ns, args) == Node("OpExpr", oprname, ns, "bool", 0, 0, FALSE, args)
BoolExpr(boolop, args) == Node("BoolExpr", boolop, "", "bool", 0, 0, FALSE, args)
NullTest(arg) == Node("NullTest", <<>>, "", "bool", 0, 0, FALSE, <<arg>>)
RelabelType(arg, typ) == Node("RelabelType", <<>>, "", typ, 0, 0, FALSE, <<arg>>)
ScalarArrayOpExpr(useOr, args) == Node("ScalarArrayOpExpr", <<>>, "", "bool", 0, 0, useOr, args)
FuncExpr(args) == Node("FuncExpr", <<>>, "", "int4", 0, 0, FALSE, args)

AND_EXPR == <<"AND_EXPR">>
OR_EXPR == <<"OR_EXPR">>
NOT_EXPR == <<"NOT_EXPR">>

PushdownSafeTypes ==
    {"bool", "int2", "int4", "int8", "float4", "float8", "numeric", "text", "varchar",
     "bpchar", "bytea", "uuid", "timestamp", "timestamptz", "date", "time", "inet"}

is_pushdown_safe_type(typeid) == typeid \in PushdownSafeTypes

\* the CQL operator of a PostgreSQL operator, NullStr when there is none
\* get_cql_operator with a mapping for the pattern-match operator as well
CqlOperatorWithLike(op) ==
    IF op.ns # PG_CATALOG_NAMESPACE THEN NullStr
    ELSE IF op.name = <<"=">> THEN <<"=">>
    ELSE IF op.name = <<"<">> THEN <<"<">>
    ELSE IF op.name = <<">">> THEN <<">">>
    ELSE IF op.name = <<"<", "=">> THEN <<"<=">>
    ELSE IF op.name = <<">", "=">> THEN <<">=">>
    ELSE IF op.name = <<"<", ">">> \/ op.name = <<"!", "=">> THEN <<"!=">>
    ELSE IF op.name = <<"~", "~">> THEN <<"LIKE">>
    ELSE NullStr

get_cql_operator(op) ==
    IF op.ns # PG_CATALOG_NAMESPACE THEN NullStr
    ELSE IF op.name = <<"=">> THEN <<"=">>
    ELSE IF op.name = <<"<">> THEN <<"<">>
    ELSE IF op.name = <<">">> THEN <<">">>
    ELSE IF op.name = <<"<", "=">> THEN <<"<=">>
    ELSE IF op.name = <<">", "=">> THEN <<">=">>
    ELSE IF op.name = <<"<", ">">> \/ op.name = <<"!", "=">> THEN <<"!=">>
    ELSE NullStr

RECURSIVE IsForeignExprAllowingOr(_)
\* scylla_is_foreign_expr without the OR_EXPR test of its T_BoolExpr case
IsForeignExprAllowingOr(expr) ==
    CASE expr.tag = "Var" ->
            IF expr.rel = BaseRelid /\ expr.att > 0
            THEN is_pushdown_safe_type(expr.typ) ELSE FALSE
      [] expr.tag = "Const" -> is_pushdown_safe_type(expr.typ)
      [] expr.tag = "OpExpr" ->
            IF get_cql_operator(expr) = NullStr THEN FALSE
            ELSE \A i \in 1..Len(expr.args) : IsForeignExprAllowingOr(expr.args[i])
      [] expr.tag = "BoolExpr" ->
            \A i \in 1..Len(expr.args) : IsForeignExprAllowingOr(expr.args[i])
      [] expr.tag = "NullTest" -> FALSE
      [] expr.tag = "RelabelType" -> IsForeignExprAllowingOr(expr.args[1])
      [] OTHER -> FALSE

RECURSIVE scylla_is_foreign_expr(_)
scylla_is_foreign_expr(expr) ==
    CASE expr.tag = "Var" ->
            IF expr.rel = BaseRelid /\ expr.att > 0
            THEN is_pushdown_safe_type(expr.typ) ELSE FALSE
      [] expr.tag = "Const" -> is_pushdown_safe_type(expr.typ)
      [] expr.tag = "OpExpr" ->
            IF get_cql_operator(expr) = NullStr THEN FALSE
            ELSE \A i \in 1..Len(expr.args) : scylla_is_foreign_expr(expr.args[i])
      [] expr.tag = "BoolExpr" ->
            IF expr.name = OR_EXPR THEN FALSE
            ELSE \A i \in 1..Len(expr.args) : scylla_is_foreign_expr(expr.args[i])
      [] expr.tag = "NullTest" -> FALSE
      [] expr.tag = "RelabelType" -> scylla_is_foreign_expr(expr.args[1])
      [] OTHER -> FALSE

\* scylla_classify_conditions leaving its loop at the first clause that is not
\* remote: that clause and every later one go to local_conds
ClassifyUntilFirstLocal(input_conds) ==
    LET stop == {i \in 1..Len(input_conds) : ~scylla_is_foreign_expr(input_conds[i])}
        n == IF stop = {} THEN Len(input_conds)
             ELSE (CHOOSE i \in stop : \A j \in stop : i <= j) - 1
    IN  [remote_conds |-> SubSeq(input_conds, 1, n),
         local_conds |-> SubSeq(input_conds, n + 1, Len(input_conds))]

\* scylla_classify_conditions: the clauses in input order, split in two lists
scylla_classify_conditions(input_conds) ==
    LET r == SetToSeq({i \in 1..Len(input_conds) : scylla_is_foreign_expr(input_conds[i])})
        l == SetToSeq({i \in 1..Len(input_conds) : ~scylla_is_foreign_expr(input_conds[i])})
    IN  [remote_conds |-> [i \in 1..Len(r) |-> input_conds[r[i]]],
         local_conds |-> [i \in 1..Len(l) |-> input_conds[l[i]]]]

(***************************************************************************)
(* Deparsing expressions, ALLOW FILTERING, and the SELECT builder.         *)
(***************************************************************************)
RECURSIVE DoubleApostrophes(_)
DoubleApostrophes(str) ==
    IF str = <<>> THEN <<>>
    ELSE (IF Head(str) = "'" THEN <<"'", "'">> ELSE <<Head(str)>>)
         \o DoubleApostrophes(Tail(str))

cql_quote_literal(str) == <<"'">> \o DoubleApostrophes(str) \o <<"'">>

deparseConst(node) ==
    IF node.isnull THEN <<"NULL">>
    ELSE CASE node.typ = "bool" ->
                 IF node.name = <<"t">> THEN <<"true">> ELSE <<"false">>
           [] node.typ \in {"int2", "int4", "int8", "float4", "float8", "numeric"} ->
                 node.name
           [] node.typ \in {"text", "varchar", "bpchar", "name"} ->
                 cql_quote_literal(node.name)
           [] node.typ = "uuid" -> node.name
           [] node.typ \in {"timestamp", "timestamptz", "date"} ->
                 cql_quote_literal(node.name)
           [] node.typ = "bytea" ->
                 <<"0x">> \o SubSeq(node.name, 3, Len(node.name))
           [] OTHER -> cql_quote_literal(node.name)

SelfItemPointerAttributeNumber == -1

Emit(buf) == [buf |-> buf, can_pushdown |-> TRUE]
Refuse == [buf |-> <<>>, can_pushdown |-> FALSE]
\* two deparse steps on the same context, one after the other
Then(x, y) == [buf |-> x.buf \o y.buf, can_pushdown |-> x.can_pushdown /\ y.can_pushdown]

RECURSIVE deparseExpr(_, _)
\* what deparsing node appends to the buffer, and whether context->can_pushdown
\* is still set afterwards
deparseExpr(node, r) ==
    CASE node.tag = "Var" ->
            IF node.att = SelfItemPointerAttributeNumber THEN Refuse
            ELSE Emit(cql_quote_identifier(r.tupdesc[node.att].attname))
      [] node.tag = "Const" -> Emit(deparseConst(node))
      [] node.tag = "OpExpr" ->
            IF get_cql_operator(node) = NullStr THEN Refuse
            ELSE IF Len(node.args) # 2 THEN Refuse
            ELSE Then(deparseExpr(node.args[1], r),
                      Then(Emit(<<" ">> \o get_cql_operator(node) \o <<" ">>),
                           deparseExpr(node.args[2], r)))
      [] node.tag = "BoolExpr" ->
            IF node.name # AND_EXPR THEN Refuse
            ELSE LET parts == [i \in 1..Len(node.args) |-> deparseExpr(node.args[i], r)]
                 IN  [buf |-> <<"(">>
                              \o JoinWith([i \in 1..Len(parts) |-> parts[i].buf], <<" AND ">>)
                              \o <<")">>,
                      can_pushdown |-> \A i \in 1..Len(parts) : parts[i].can_pushdown]
      [] node.tag = "NullTest" -> Refuse
      [] node.tag = "RelabelType" -> deparseExpr(node.args[1], r)

\* the inner loop over remote_conds for one primary-key attribute number
FoundEquality(pk_attnum, remote_conds) ==
    \E i \in 1..Len(remote_conds) :
        LET expr == remote_conds[i]
            leftIsKey == /\ Len(expr.args) >= 1
                         /\ expr.args[1].tag = "Var"
                         /\ expr.args[1].att = pk_attnum
                         /\ expr.args[1].rel = BaseRelid
        IN  \/ expr.tag = "OpExpr" /\ get_cql_operator(expr) = <<"=">> /\ leftIsKey
            \/ expr.tag = "ScalarArrayOpExpr" /\ expr.isnull /\ leftIsKey

needs_allow_filtering(r, remote_conds) ==
    LET pk_str == GetOption(r.options, OPT_PRIMARY_KEY)
    IN  IF remote_conds = <<>> THEN TRUE
        ELSE IF pk_str = NullStr \/ pk_str = <<>> THEN TRUE
        ELSE LET toks == PkTokens(pk_str)
             IN  \E i \in 1..Len(toks) :
                    /\ AttnumOf(r.tupdesc, toks[i]) # 0
                    /\ ~FoundEquality(AttnumOf(r.tupdesc, toks[i]), remote_conds)

\* the attributes the column-list loop appends; attrs_used = {} is the NULL bitmapset
SelectedAttrs(r, attrs_used) ==
    LET wanted == SetToSeq({i \in 1..natts(r) :
                               /\ ~r.tupdesc[i].attisdropped
                               /\ (attrs_used = {} \/ i \in attrs_used)})
        live == NonDropped(r)
    IN  IF wanted # <<>> THEN wanted
        ELSE IF live # <<>> THEN <<live[1]>>
        ELSE <<>>

scylla_build_select_query(r, attrs_used, remote_conds) ==
    LET retrieved == SelectedAttrs(r, attrs_used)
        conds == [i \in 1..Len(remote_conds) |-> deparseExpr(remote_conds[i], r).buf]
    IN  [sql |-> <<"SELECT ">>
                 \o JoinWith([i \in 1..Len(retrieved) |-> ColName(r, retrieved[i])], <<", ">>)
                 \o <<" FROM ">> \o QualifiedName(r)
                 \o (IF remote_conds # <<>>
                     THEN <<" WHERE ">> \o JoinWith(conds, <<" AND ">>) ELSE <<>>)
                 \o (IF needs_allow_filtering(r, remote_conds)
                     THEN <<" ALLOW FILTERING">> ELSE <<>>),
         retrieved_attrs |-> retrieved]

(***************************************************************************)
(* The driver: handles are numbered from 1 as they are created, 0 is the   *)
(* NULL pointer.  drv.freed lists every release call the wrapper passed on *)
(* to the driver, drv.submitted every statement sent to the remote.        *)
(***************************************************************************)
SCYLLA_CONSISTENCY_LOCAL_QUORUM == 6

DrvInit ==
    [nh |-> 0, live |-> {}, freed |-> <<>>, submitted |-> <<>>,
     prepared_query |-> <<>>, rows |-> 0, pos |-> 0]

\* a new handle: its number is d.nh + 1
Alloc(d) == [d EXCEPT !.nh = @ + 1, !.live = @ \cup {d.nh + 1}]

\* scylla_free_result, scylla_free_prepared, scylla_free_iterator,
\* scylla_free_statement, scylla_disconnect: nothing on NULL, else the release
Release(d, k, h) ==
    IF h = 0 THEN d
    ELSE [d EXCEPT !.freed = Append(@, [kind |-> k, id |-> h]), !.live = @ \ {h}]

\* the messages the remote may give with a refusal
RemoteMessages == {"Unavailable", "Write timeout"}

\* scylla_execute_query, scylla_execute_prepared: the statement is sent once;
\* error_msg is the out-parameter, NULL ("") on success and the copy of the
\* remote's message on a refusal
Submit(d, how, text, params, consistency, conn, ok, msg) ==
    [d EXCEPT !.submitted = Append(@, [how |-> how, text |-> text, params |-> params,
                                       consistency |-> consistency, conn |-> conn,
                                       ok |-> ok,
                                       error_msg |-> IF ok THEN "" ELSE msg])]

\* errmsg("... failed: %s", error_msg ? error_msg : "unknown error")
ErrMsg(prefix, error_msg) ==
    <<prefix, IF error_msg = "" THEN "unknown error" ELSE error_msg>>

\* the bind markers of a statement text
Placeholders(text) == Cardinality({i \in 1..Len(text) : text[i] \in {"?", " = ?"}})

Unbound == [bound |-> FALSE, isnull |-> FALSE, value |-> 0]

\* scylla_create_statement: cass_prepared_bind gives one unset parameter per marker
scylla_create_statement(text) == [i \in 1..Placeholders(text) |-> Unbound]

\* scylla_convert_from_pg on an integer column: scylla_bind_null or scylla_bind_int32
\* at a 0-based index; the driver refuses an index the statement does not have and
\* the wrapper ignores that
scylla_convert_from_pg(params, datum, index) ==
    IF index + 1 \in 1..Len(params)
    THEN [params EXCEPT ![index + 1] =
             [bound |-> TRUE, isnull |-> datum.isnull,
              value |-> IF datum.isnull THEN 0 ELSE datum.value]]
    ELSE params

NullDatum == [value |-> 0, isnull |-> TRUE]

\* slot_getattr
slot_getattr(slot, attnum) ==
    IF attnum \in 1..Len(slot) THEN slot[attnum] ELSE NullDatum

\* a binding loop whose param_idx is one ahead of the attribute it binds
BindLoopShifted(params, attrs, slot, param_idx) ==
    [i \in 1..Len(params) |->
        IF i - param_idx - 1 \in 1..Len(attrs)
        THEN [bound |-> TRUE,
              isnull |-> slot_getattr(slot, attrs[i - param_idx - 1]).isnull,
              value |-> slot_getattr(slot, attrs[i - param_idx - 1]).value]
        ELSE params[i]]

RECURSIVE BindLoop(_, _, _, _)
\* foreach_int(attnum, attrs) { bind slot_getattr(slot, attnum) at param_idx++ }
BindLoop(params, attrs, slot, param_idx) ==
    IF attrs = <<>> THEN params
    ELSE BindLoop(scylla_convert_from_pg(params, slot_getattr(slot, Head(attrs)), param_idx),
                  Tail(attrs), slot, param_idx + 1)

(***************************************************************************)
(* The rows the host passes to a modify executor.  Row number n holds the  *)
(* value Datum(n, att) in column att, so a bound value tells its column.   *)
(***************************************************************************)
Datum(rowno, att) == [value |-> 10 * (rowno - 1) + 6 + att, isnull |-> FALSE]

\* the new tuple of INSERT and UPDATE: every column, null in dropped columns and
\* in the column nullAt
NewTuple(r, rowno, nullAt) ==
    [att \in 1..natts(r) |->
        IF r.tupdesc[att].attisdropped \/ att = nullAt THEN NullDatum
        ELSE Datum(rowno, att)]

\* the subplan's row of UPDATE and DELETE: the row-identity columns that
\* scyllaAddForeignUpdateTargets asked for, in that order
PlanSlot(rowno, junk) == [i \in 1..Len(junk) |-> Datum(rowno, junk[i])]

OPT_CONSISTENCY == "consistency"
DEFAULT_CONSISTENCY == <<"l", "o", "c", "a", "l", "_", "q", "u", "o", "r", "u", "m">>

\* scylla_string_to_consistency: the level of a name, -1 for any other string
scylla_string_to_consistency(str) ==
    CASE str = <<"a", "n", "y">> -> 0
      [] str = <<"o", "n", "e">> -> 1
      [] str = <<"t", "w", "o">> -> 2
      [] str = <<"t", "h", "r", "e", "e">> -> 3
      [] str = <<"q", "u", "o", "r", "u", "m">> -> 4
      [] str = <<"a", "l", "l">> -> 5
      [] str = DEFAULT_CONSISTENCY -> 6
      [] str = <<"e", "a", "c", "h", "_", "q", "u", "o", "r", "u", "m">> -> 7
      [] str = <<"s", "e", "r", "i", "a", "l">> -> 8
      [] str = <<"l", "o", "c", "a", "l", "_", "s", "e", "r", "i", "a", "l">> -> 9
      [] str = <<"l", "o", "c", "a", "l", "_", "o", "n", "e">> -> 10
      [] OTHER -> -1

\* scylla_extract_options, the consistency field: the default, replaced by
\* the server's option when it is set
ExtractConsistency(server_opts) ==
    IF GetOption(server_opts, OPT_CONSISTENCY) = NullStr THEN DEFAULT_CONSISTENCY
    ELSE GetOption(server_opts, OPT_CONSISTENCY)

\* the option lists of a foreign server that the validator accepts: no
\* consistency option, or one with the name of a level
ServerOptionLists ==
    {<<>>, <<DefElem(OPT_CONSISTENCY, <<"o", "n", "e">>)>>}

\* the server's options vary for the tables of one column
ServerOptionsOf(r) == IF natts(r) = 1 THEN ServerOptionLists ELSE {<<>>}

\* host.server holds the options of the foreign server in the catalog
HostInit ==
    [closes |-> 0, rescans |-> 0, fetches |-> 0, calls |-> <<>>, ret |-> "none",
     explain_only |-> FALSE, error |-> <<>>, server |-> <<>>, slot |-> <<>>]

(***************************************************************************)
(* The modify executor.                                                    *)
(***************************************************************************)
FmNull ==
    [alloc |-> FALSE, conn |-> 0, cluster |-> 0, prepared |-> 0, query |-> <<>>,
     target_attrs |-> <<>>, operation |-> "none", num_params |-> 0]

FsNull ==
    [alloc |-> FALSE, conn |-> 0, cluster |-> 0, result |-> 0, iterator |-> 0,
     prepared |-> 0, query |-> <<>>, eof_reached |-> FALSE, fetch_ct |-> 0,
     col_mapping |-> <<>>, num_cols |-> 0]

AddForeignUpdateTargets ==
    /\ kind = "modify" /\ pc = "init" /\ operation \in {CMD_UPDATE, CMD_DELETE}
    /\ pc' = IF scyllaAddForeignUpdateTargets(rel).error = "" THEN "targets" ELSE "plan_error"
    /\ UNCHANGED <<kind, rel, operation, fdw_private, fmstate, fsstate, drv, host, clauses, codec>>

PlanForeignModify ==
    /\ kind = "modify"
    /\ \/ pc = "init" /\ operation = CMD_INSERT
       \/ pc = "targets"
    /\ fdw_private' = scyllaPlanForeignModify(rel, operation)
    /\ pc' = "planned"
    /\ UNCHANGED <<kind, rel, operation, fmstate, fsstate, drv, host, clauses, codec>>

BeginForeignModify ==
    /\ kind = "modify" /\ pc = "planned"
    /\ \E explain_only, connected, prepared \in BOOLEAN :
        /\ host' = [host EXCEPT !.explain_only = explain_only]
        /\ IF explain_only
           THEN /\ pc' = "running"
                /\ UNCHANGED <<fmstate, drv>>
           ELSE IF ~connected
           THEN /\ pc' = "error"
                /\ fmstate' = [FmNull EXCEPT !.alloc = TRUE]
                /\ UNCHANGED drv
           ELSE LET d1 == Alloc(drv)
                    d2 == [Alloc(d1) EXCEPT !.prepared_query = fdw_private.query]
                    st == [FmNull EXCEPT !.alloc = TRUE, !.conn = d1.nh,
                                         !.query = fdw_private.query,
                                         !.target_attrs = fdw_private.target_attrs,
                                         !.operation = fdw_private.operation]
                IN  IF ~prepared
                    THEN /\ pc' = "error"
                         /\ fmstate' = st
                         /\ drv' = d1
                    ELSE /\ pc' = "running"
                         /\ fmstate' = [st EXCEPT !.prepared = d2.nh,
                                                  !.num_params = Len(st.target_attrs)]
                         /\ drv' = d2
    /\ UNCHANGED <<kind, rel, operation, fdw_private, fsstate, clauses, codec>>

\* the part the three per-row callbacks share: a bound statement made from the
\* prepared handle, the binding loop, the execution, the releases, the error
\* a per-row callback that sends a refused statement once more before it
\* raises the error
ExecRowRetrying(prefix, attrs, bindSlot, slot, planSlot, ok, msg) ==
    LET d1 == Alloc(drv)
        params == BindLoop(scylla_create_statement(drv.prepared_query), attrs, bindSlot, 0)
        d2 == Submit(d1, "prepared", drv.prepared_query, params,
                     SCYLLA_CONSISTENCY_LOCAL_QUORUM, fmstate.conn, ok, msg)
        d3 == IF ok THEN d2
              ELSE Submit(d2, "prepared", drv.prepared_query, params,
                          SCYLLA_CONSISTENCY_LOCAL_QUORUM, fmstate.conn, ok, msg)
        d4 == Release(d3, "statement", d1.nh)
        d5 == IF ok THEN Release(Alloc(d4), "result", d4.nh + 1) ELSE d4
    IN  /\ drv' = d5
        /\ host' = [host EXCEPT !.calls = Append(@, [slot |-> slot, planSlot |-> planSlot]),
                                !.error = IF ok THEN @ ELSE ErrMsg(prefix, msg)]
        /\ pc' = IF ok THEN "running" ELSE "error"
        /\ UNCHANGED <<kind, rel, operation, fdw_private, fmstate, fsstate, clauses, codec>>

\* a per-row callback that tests the result before it releases the bound
\* statement: the statement of a refused row is never released
ExecRowLeakingOnFailure(prefix, attrs, bindSlot, slot, planSlot, ok, msg) ==
    LET d1 == Alloc(drv)
        params == BindLoop(scylla_create_statement(drv.prepared_query), attrs, bindSlot, 0)
        d2 == Submit(d1, "prepared", drv.prepared_query, params,
                     SCYLLA_CONSISTENCY_LOCAL_QUORUM, fmstate.conn, ok, msg)
        d3 == IF ok THEN Release(d2, "statement", d1.nh) ELSE d2
        d4 == IF ok THEN Release(Alloc(d3), "result", d3.nh + 1) ELSE d3
    IN  /\ drv' = d4
        /\ host' = [host EXCEPT !.calls = Append(@, [slot |-> slot, planSlot |-> planSlot]),
                                !.error = IF ok THEN @ ELSE ErrMsg(prefix, msg)]
        /\ pc' = IF ok THEN "running" ELSE "error"
        /\ UNCHANGED <<kind, rel, operation, fdw_private, fmstate, fsstate, clauses, codec>>

ExecRow(prefix, attrs, bindSlot, slot, planSlot, ok, msg) ==
    LET d1 == Alloc(drv)
        params == BindLoop(scylla_create_statement(drv.prepared_query), attrs, bindSlot, 0)
        d2 == Submit(d1, "prepared", drv.prepared_query, params,
                     SCYLLA_CONSISTENCY_LOCAL_QUORUM, fmstate.conn, ok, msg)
        d3 == Release(d2, "statement", d1.nh)
        d4 == IF ok THEN Release(Alloc(d3), "result", d3.nh + 1) ELSE d3
    IN  /\ drv' = d4
        /\ host' = [host EXCEPT !.calls = Append(@, [slot |-> slot, planSlot |-> planSlot]),
                                !.error = IF ok THEN @ ELSE ErrMsg(prefix, msg)]
        /\ pc' = IF ok THEN "running" ELSE "error"
        /\ UNCHANGED <<kind, rel, operation, fdw_private, fmstate, fsstate, clauses, codec>>

CanExec(op) ==
    /\ kind = "modify" /\ pc = "running" /\ fmstate.alloc /\ fmstate.operation = op
    /\ Len(host.calls) < MaxRows

\* the column of the new row that is null (0: none).  The first row of a
\* statement may have its null in any column, a row after it in the last one.
NullColumns == IF host.calls = <<>> THEN 0..natts(rel) ELSE {0, natts(rel)}

ExecForeignInsert ==
    /\ CanExec(CMD_INSERT)
    /\ \E nullAt \in NullColumns, ok \in BOOLEAN, msg \in RemoteMessages :
        LET slot == NewTuple(rel, Len(host.calls) + 1, nullAt)
        IN  ExecRow("INSERT failed: ", fmstate.target_attrs, slot, slot, <<>>, ok, msg)

ExecForeignUpdate ==
    /\ CanExec(CMD_UPDATE)
    /\ \E nullAt \in NullColumns, ok \in BOOLEAN, msg \in RemoteMessages :
        LET slot == NewTuple(rel, Len(host.calls) + 1, nullAt)
            planSlot == PlanSlot(Len(host.calls) + 1, scyllaAddForeignUpdateTargets(rel).junk)
        IN  ExecRow("UPDATE failed: ", fmstate.target_attrs, slot, slot, planSlot, ok, msg)

ExecForeignDelete ==
    /\ CanExec(CMD_DELETE)
    /\ \E ok \in BOOLEAN, msg \in RemoteMessages :
        LET planSlot == PlanSlot(Len(host.calls) + 1, scyllaAddForeignUpdateTargets(rel).junk)
        IN  ExecRow("DELETE failed: ", fmstate.target_attrs, planSlot, <<>>, planSlot, ok, msg)

EndForeignModify ==
    /\ kind = "modify" /\ pc \in {"running", "ended"}
    /\ host.closes < MaxCloses
    /\ host' = [host EXCEPT !.closes = @ + 1]
    /\ pc' = "ended"
    /\ drv' = IF ~fmstate.alloc THEN drv
              ELSE Release(Release(drv, "prepared", fmstate.prepared), "conn", fmstate.conn)
    /\ UNCHANGED <<kind, rel, operation, fdw_private, fmstate, fsstate, clauses, codec>>

(***************************************************************************)
(* The scan executor.                                                      *)
(***************************************************************************)
\* the column mapping scyllaBeginForeignScan computes: for each attribute the
\* 0-based place of its column in the result, -1 when it is not retrieved
ColMapping(r, retrieved_attrs) ==
    [att \in 1..natts(r) |->
        LET places == {i \in 1..Len(retrieved_attrs) : retrieved_attrs[i] = att}
        IN  IF places = {} THEN -1
            ELSE (CHOOSE i \in places : \A j \in places : j <= i) - 1]

\* an open that does not look at EXEC_FLAG_EXPLAIN_ONLY
BeginForeignScanIgnoringExplain ==
    /\ kind = "scan" /\ pc = "planned"
    /\ \E explain_only \in BOOLEAN :
        /\ host' = [host EXCEPT !.explain_only = explain_only]
        /\ pc' = "running"
        /\ drv' = Alloc(drv)
        /\ fsstate' = [FsNull EXCEPT !.alloc = TRUE, !.conn = drv.nh + 1,
                                     !.query = fdw_private.query]
    /\ UNCHANGED <<kind, rel, operation, fdw_private, fmstate, clauses, codec>>

BeginForeignScan ==
    /\ kind = "scan" /\ pc = "planned"
    /\ \E explain_only, connected \in BOOLEAN :
        /\ host' = [host EXCEPT !.explain_only = explain_only]
        /\ IF explain_only
           THEN /\ pc' = "running"
                /\ UNCHANGED <<fsstate, drv>>
           ELSE IF ~connected
           THEN /\ pc' = "error"
                /\ fsstate' = [FsNull EXCEPT !.alloc = TRUE]
                /\ UNCHANGED drv
           ELSE /\ pc' = "running"
                /\ drv' = Alloc(drv)
                /\ fsstate' = [FsNull EXCEPT
                                  !.alloc = TRUE, !.conn = drv.nh + 1,
                                  !.query = fdw_private.query,
                                  !.num_cols = Len(fdw_private.target_attrs),
                                  !.col_mapping = ColMapping(rel, fdw_private.target_attrs)]
    /\ UNCHANGED <<kind, rel, operation, fdw_private, fmstate, clauses, codec>>

\* the value the remote holds in row rowno of the result, in the column at the
\* 0-based place col_index of the select list: it tells its row and its place
Cell(rowno, col_index) == [value |-> 10 * rowno + col_index, isnull |-> FALSE]

\* a tuple whose attribute i is read from result column i - 1, whatever the
\* column mapping says
BuildTupleByAttnum(r, fs, rowno) ==
    [att \in 1..natts(r) |->
        IF fs.col_mapping[att] < 0 \/ r.tupdesc[att].attisdropped THEN NullDatum
        ELSE Cell(rowno, att - 1)]

\* the tuple scyllaIterateForeignScan builds of the row the cursor is on: every
\* attribute null, then each mapped, non-dropped attribute read from its column
BuildTuple(r, fs, rowno) ==
    [att \in 1..natts(r) |->
        IF fs.col_mapping[att] < 0 \/ r.tupdesc[att].attisdropped THEN NullDatum
        ELSE Cell(rowno, fs.col_mapping[att])]

\* the first part of scyllaIterateForeignScan: the statement is submitted when
\* there is no result yet and the end has not been seen
IterateExecute(ok, msg, iterator_ok, nrows) ==
    LET d1 == Submit(drv, "query", fsstate.query, <<>>,
                     SCYLLA_CONSISTENCY_LOCAL_QUORUM, fsstate.conn, ok, msg)
        d2 == [Alloc(d1) EXCEPT !.rows = nrows, !.pos = 0]
        d3 == Alloc(d2)
    IN  IF ~ok THEN [drv |-> d1, fs |-> fsstate, out |-> "error"]
        ELSE IF ~iterator_ok
        THEN [drv |-> d2,
              fs |-> [fsstate EXCEPT !.result = d2.nh, !.iterator = 0, !.eof_reached = TRUE],
              out |-> "empty"]
        ELSE [drv |-> d3,
              fs |-> [fsstate EXCEPT !.result = d2.nh, !.iterator = d3.nh],
              out |-> "go"]

\* the rest of it without the end-of-stream test: the iterator is stepped again,
\* and a NULL iterator is dereferenced
IterateFetchWithoutEofTest(d, fs) ==
    IF fs.iterator = 0 THEN [drv |-> d, fs |-> fs, out |-> "crash"]
    ELSE IF d.pos >= d.rows
    THEN [drv |-> d, fs |-> [fs EXCEPT !.eof_reached = TRUE], out |-> "empty"]
    ELSE [drv |-> [d EXCEPT !.pos = @ + 1],
          fs |-> [fs EXCEPT !.fetch_ct = @ + 1], out |-> "row"]

\* the rest of it: the end-of-stream test, the step of the iterator, the tuple
IterateFetch(d, fs) ==
    IF fs.eof_reached THEN [drv |-> d, fs |-> fs, out |-> "empty"]
    ELSE IF d.pos >= d.rows
    THEN [drv |-> d, fs |-> [fs EXCEPT !.eof_reached = TRUE], out |-> "empty"]
    ELSE [drv |-> [d EXCEPT !.pos = @ + 1],
          fs |-> [fs EXCEPT !.fetch_ct = @ + 1], out |-> "row"]

\* what the remote may answer to the statement of a fetch: a refusal with its
\* message, or a result of some rows with or without a cursor.  A fetch that
\* submits nothing gets no answer.
RemoteOutcomes(submits) ==
    IF ~submits THEN {[ok |-> TRUE, msg |-> "", iterator_ok |-> TRUE, nrows |-> 0]}
    ELSE {[ok |-> FALSE, msg |-> m, iterator_ok |-> FALSE, nrows |-> 0] : m \in RemoteMessages}
         \cup {[ok |-> TRUE, msg |-> "", iterator_ok |-> i, nrows |-> n] :
                 i \in BOOLEAN, n \in 0..MaxRows}

IterateForeignScan ==
    /\ kind = "scan" /\ pc = "running" /\ fsstate.alloc
    /\ host.fetches < MaxFetches
    /\ \E remote \in RemoteOutcomes(fsstate.result = 0 /\ ~fsstate.eof_reached) :
        LET ok == remote.ok
            msg == remote.msg
            first == IF fsstate.result = 0 /\ ~fsstate.eof_reached
                     THEN IterateExecute(ok, msg, remote.iterator_ok, remote.nrows)
                     ELSE [drv |-> drv, fs |-> fsstate, out |-> "go"]
            last == IF first.out = "go" THEN IterateFetch(first.drv, first.fs) ELSE first
        IN  /\ drv' = last.drv
            /\ fsstate' = last.fs
            /\ host' = [host EXCEPT !.ret = last.out, !.fetches = @ + 1,
                                    !.slot = IF last.out = "row"
                                             THEN BuildTuple(rel, last.fs, last.drv.pos)
                                             ELSE <<>>,
                                    !.error = IF last.out = "error"
                                              THEN ErrMsg("ScyllaDB query failed: ", msg)
                                              ELSE @]
            /\ pc' = IF last.out = "error" THEN "error" ELSE "running"
    /\ UNCHANGED <<kind, rel, operation, fdw_private, fmstate, clauses, codec>>

\* a rescan that releases the cursor and the result and resets nothing
ReScanWithoutReset ==
    /\ kind = "scan" /\ pc = "running" /\ fsstate.alloc
    /\ host.rescans < MaxRescans
    /\ host' = [host EXCEPT !.rescans = @ + 1, !.ret = "none", !.slot = <<>>]
    /\ drv' = Release(Release(drv, "iterator", fsstate.iterator), "result", fsstate.result)
    /\ UNCHANGED <<kind, rel, operation, pc, fdw_private, fmstate, fsstate, clauses, codec>>

ReScanForeignScan ==
    /\ kind = "scan" /\ pc = "running" /\ fsstate.alloc
    /\ host.rescans < MaxRescans
    /\ host' = [host EXCEPT !.rescans = @ + 1, !.ret = "none", !.slot = <<>>]
    /\ drv' = Release(Release(drv, "iterator", fsstate.iterator), "result", fsstate.result)
    /\ fsstate' = [fsstate EXCEPT !.iterator = 0, !.result = 0,
                                  !.eof_reached = FALSE, !.fetch_ct = 0]
    /\ UNCHANGED <<kind, rel, operation, pc, fdw_private, fmstate, clauses, codec>>

EndForeignScan ==
    /\ kind = "scan" /\ pc \in {"running", "ended"}
    /\ host.closes < MaxCloses
    /\ host' = [host EXCEPT !.closes = @ + 1]
    /\ pc' = "ended"
    /\ drv' = IF ~fsstate.alloc THEN drv
              ELSE Release(Release(Release(Release(drv,
                        "iterator", fsstate.iterator),
                        "result", fsstate.result),
                        "prepared", fsstate.prepared),
                        "conn", fsstate.conn)
    /\ UNCHANGED <<kind, rel, operation, fdw_private, fmstate, fsstate, clauses, codec>>

(***************************************************************************)
(* The executors' specification: one modification, planned and executed,   *)
(* or one scan of a planned SELECT.                                        *)
(***************************************************************************)
\* the columns a scan's query needs: none named (every column is fetched),
\* and for a table of two columns the second one alone as well
ScanAttrsUsed(r) == IF natts(r) = 2 THEN {{}, {2}} ELSE {{}}

ScanPlan(r, attrs_used) ==
    LET q == scylla_build_select_query(r, attrs_used, <<>>)
    IN  [query |-> q.sql, target_attrs |-> q.retrieved_attrs, operation |-> CMD_SELECT]

Init ==
    /\ kind \in {"modify", "scan"}
    /\ rel \in Relations
    /\ IF kind = "modify"
       THEN /\ operation \in {CMD_INSERT, CMD_UPDATE, CMD_DELETE}
            /\ pc = "init"
            /\ fdw_private = NoPlan
       ELSE /\ ~rel.haskey
            /\ operation = CMD_SELECT
            /\ pc = "planned"
            /\ fdw_private \in {ScanPlan(rel, used) : used \in ScanAttrsUsed(rel)}
    /\ fmstate = FmNull
    /\ fsstate = FsNull
    /\ drv = DrvInit
    /\ host \in {[HostInit EXCEPT !.server = so] : so \in ServerOptionsOf(rel)}
    /\ clauses = <<>>
    /\ codec = <<>>

Next ==
    \/ AddForeignUpdateTargets
    \/ PlanForeignModify
    \/ BeginForeignModify
    \/ ExecForeignInsert
    \/ ExecForeignUpdate
    \/ ExecForeignDelete
    \/ EndForeignModify
    \/ BeginForeignScan
    \/ IterateForeignScan
    \/ ReScanForeignScan
    \/ EndForeignScan

Spec == Init /\ [][Next]_vars

(***************************************************************************)
(* Planning a scan: the restriction clauses of a query on the table        *)
(* (id int4, k2 int4, a bool) are classified by scyllaGetForeignRelSize,   *)
(* and scyllaGetForeignPlan builds the SELECT from the remote ones.        *)
(***************************************************************************)
MaxClauses == 2   \* restriction clauses of one query

ScanTupdesc == <<Attr(<<"i", "d">>, FALSE), Attr(<<"k", "2">>, FALSE), Attr(<<"a">>, FALSE)>>
ScanRelations == {r \in Relations : r.tupdesc = ScanTupdesc}

ColId == Var(BaseRelid, 1, "int4")
ColK2 == Var(BaseRelid, 2, "int4")
ColA == Var(BaseRelid, 3, "bool")
Eq(l, r) == OpExpr(<<"=">>, PG_CATALOG_NAMESPACE, <<l, r>>)
Gt(l, r) == OpExpr(<<">">>, PG_CATALOG_NAMESPACE, <<l, r>>)
Int4(n) == Const("int4", <<n>>)

IdEq5 == Eq(ColId, Int4("5"))
K2Eq3 == Eq(ColK2, Int4("3"))
K2Gt10 == Gt(ColK2, Const("int4", <<"1", "0">>))
IdEq5OrK2Eq3 == BoolExpr(OR_EXPR, <<IdEq5, K2Eq3>>)
IdEq5AndK2Gt10 == BoolExpr(AND_EXPR, <<IdEq5, K2Gt10>>)

\* the clauses a query's WHERE may hand to the planner callbacks
RestrictionPool ==
    { IdEq5, K2Eq3, K2Gt10,
      Eq(Int4("5"), ColId),                                   \* 5 = id
      Eq(RelabelType(ColId, "int4"), Int4("5")),              \* id::int4 = 5
      Eq(ColId, ColK2),                                       \* id = k2
      Eq(ColId, Const("interval", <<"5">>)),                  \* a literal of an unsafe type
      OpExpr(<<"=">>, "public", <<ColId, Int4("5")>>),        \* a user-defined "="
      OpExpr(<<"~", "~">>, PG_CATALOG_NAMESPACE, <<ColK2, Int4("3")>>),
      OpExpr(<<"<", ">">>, PG_CATALOG_NAMESPACE, <<ColK2, Int4("3")>>),
      OpExpr(<<"<", "=">>, PG_CATALOG_NAMESPACE, <<ColK2, Int4("3")>>),
      ColA,                                                   \* WHERE a
      BoolExpr(NOT_EXPR, <<ColA>>),                           \* WHERE NOT a
      IdEq5OrK2Eq3,
      IdEq5AndK2Gt10,
      BoolExpr(AND_EXPR, <<IdEq5OrK2Eq3, K2Gt10>>),
      BoolExpr(AND_EXPR, <<IdEq5, NullTest(ColK2)>>),
      BoolExpr(OR_EXPR, <<IdEq5AndK2Gt10, K2Eq3>>),
      BoolExpr(NOT_EXPR, <<IdEq5OrK2Eq3>>),
      Eq(ColA, IdEq5OrK2Eq3),                                 \* a = (id = 5 OR k2 = 3)
      NullTest(ColId),
      ScalarArrayOpExpr(TRUE, <<ColId, Const("int4[]", <<"{", "5", "}">>)>>),
      Eq(FuncExpr(<<ColId>>), Int4("5")) }

\* the comparisons that accompany a clause of the pool in a longer WHERE
SimpleComparisons == {IdEq5, K2Eq3, K2Gt10, Eq(Int4("5"), ColId)}

RECURSIVE ComparisonLists(_)
\* the lists of at most n simple comparisons
ComparisonLists(n) ==
    IF n = 0 THEN {<<>>}
    ELSE LET shorter == ComparisonLists(n - 1)
         IN  shorter \cup {Append(l, c) : l \in {x \in shorter : Len(x) = n - 1},
                                          c \in SimpleComparisons}

\* the implicit-AND lists of at most n clauses: none, or one clause of the pool
\* followed by simple comparisons
ClauseLists(n) ==
    {<<>>} \cup {<<c>> \o l : c \in RestrictionPool, l \in ComparisonLists(n - 1)}

RECURSIVE pull_varattnos(_)
\* the attribute numbers of the table's columns an expression refers to
pull_varattnos(expr) ==
    IF expr.tag = "Var" THEN (IF expr.rel = BaseRelid THEN {expr.att} ELSE {})
    ELSE UNION {pull_varattnos(expr.args[i]) : i \in 1..Len(expr.args)}

\* the projections of the model: no column (count(*)), one column
Reltargets == {{}, {3}}

NoClauses ==
    [input |-> <<>>, reltarget |-> {}, remote_conds |-> <<>>, local_conds |-> <<>>,
     attrs_used |-> {}, remote_exprs |-> <<>>, local_exprs |-> <<>>,
     sql |-> <<>>, retrieved_attrs |-> <<>>]

\* scyllaGetForeignRelSize: classification, then the columns to fetch
GetForeignRelSize ==
    /\ kind = "planscan" /\ pc = "restrict"
    /\ LET c == scylla_classify_conditions(clauses.input)
           conds == c.local_conds \o c.remote_conds
       IN  clauses' = [clauses EXCEPT
                          !.remote_conds = c.remote_conds,
                          !.local_conds = c.local_conds,
                          !.attrs_used = clauses.reltarget
                              \cup UNION {pull_varattnos(conds[i]) : i \in 1..Len(conds)}]
    /\ pc' = "sized"
    /\ UNCHANGED <<kind, rel, operation, fdw_private, fmstate, fsstate, drv, host, codec>>

\* the scan clauses that are (are not) members of fpinfo->remote_conds, in order
ScanClauses(scan_clauses, remote_conds, member) ==
    LET isRemote(c) == \E j \in 1..Len(remote_conds) : remote_conds[j] = c
        idx == SetToSeq({i \in 1..Len(scan_clauses) : isRemote(scan_clauses[i]) = member})
    IN  [i \in 1..Len(idx) |-> scan_clauses[idx[i]]]

\* scylla_build_select_query hands fpinfo->keyspace and fpinfo->table to
\* cql_quote_identifier, which reads ident[0]: with a NULL name the read is
\* through a NULL pointer.  The backend is killed by the fault, or the read
\* returns whatever bytes are there and the text is built from them (the
\* model writes these bytes NullStr).
NullDeref == {"fault", "bytes"}

\* scyllaGetForeignPlan: the split of the scan clauses, the SELECT, fdw_private
GetForeignPlan ==
    /\ kind = "planscan" /\ pc = "sized"
    /\ \E outcome \in NullDeref :
        IF /\ \/ GetOption(rel.options, OPT_KEYSPACE) = NullStr
              \/ GetOption(rel.options, OPT_TABLE) = NullStr
           /\ outcome = "fault"
        THEN /\ pc' = "crash"
             /\ UNCHANGED <<clauses, fdw_private>>
        ELSE LET remote_exprs == ScanClauses(clauses.input, clauses.remote_conds, TRUE)
                 local_exprs == ScanClauses(clauses.input, clauses.remote_conds, FALSE)
                 q == scylla_build_select_query(rel, clauses.attrs_used, remote_exprs)
             IN  /\ clauses' = [clauses EXCEPT !.remote_exprs = remote_exprs,
                                               !.local_exprs = local_exprs,
                                               !.sql = q.sql,
                                               !.retrieved_attrs = q.retrieved_attrs]
                 /\ fdw_private' = [query |-> q.sql, target_attrs |-> q.retrieved_attrs,
                                    operation |-> CMD_SELECT]
                 /\ pc' = "planned"
    /\ UNCHANGED <<kind, rel, operation, fmstate, fsstate, drv, host, codec>>

\* scylla_fdw_options: the option names and the catalog each may appear in
scylla_fdw_options ==
    [keyword : {"host", "port", "protocol_version", "ssl", "ssl_cert", "ssl_key",
                "ssl_ca", "connect_timeout", "request_timeout", OPT_CONSISTENCY},
     context : {"ForeignServerRelationId"}]
    \cup [keyword : {"username", "password"}, context : {"UserMappingRelationId"}]
    \cup [keyword : {OPT_KEYSPACE, OPT_TABLE, OPT_PRIMARY_KEY, "clustering_key"},
          context : {"ForeignTableRelationId"}]

\* scylla_fdw_validator: "" when every option of the list is accepted, else
\* the message of the first error.  It looks at the options that are there.
RECURSIVE scylla_fdw_validator(_, _)
scylla_fdw_validator(options_list, catalog) ==
    IF options_list = <<>> THEN ""
    ELSE LET def == Head(options_list)
         IN  IF [keyword |-> def.defname, context |-> catalog] \notin scylla_fdw_options
             THEN "invalid option"
             ELSE IF /\ def.defname = OPT_CONSISTENCY
                     /\ scylla_string_to_consistency(def.arg) < 0
             THEN "invalid consistency level"
             ELSE scylla_fdw_validator(Tail(options_list), catalog)

\* the option lists a user may give a foreign table of the model's columns:
\* those of ScanRelations, lists without the keyspace or the table name, and
\* lists with an option of another catalog
ScanCatalog ==
    ScanRelations
    \cup {[tupdesc |-> ScanTupdesc, options |-> o, haskey |-> FALSE, key |-> <<>>] :
            o \in {<<>>,
                   <<DefElem(OPT_KEYSPACE, <<"k", "s">>)>>,
                   <<DefElem(OPT_TABLE, <<"t", "b", "l">>)>>,
                   Append(BaseOptions, DefElem("host", <<"h">>)),
                   Append(BaseOptions, DefElem("fetch_size", <<"9">>))}}

\* the foreign tables that exist: CREATE FOREIGN TABLE ran the validator
ValidatedRelations ==
    {r \in ScanCatalog : scylla_fdw_validator(r.options, "ForeignTableRelationId") = ""}

InitClassify ==
    /\ kind = "planscan"
    /\ rel \in ValidatedRelations
    /\ operation = CMD_SELECT
    /\ pc = "restrict"
    /\ fdw_private = NoPlan
    /\ fmstate = FmNull
    /\ fsstate = FsNull
    /\ drv = DrvInit
    /\ host = HostInit
    /\ clauses \in {[NoClauses EXCEPT !.input = l, !.reltarget = t] :
                       l \in ClauseLists(MaxClauses), t \in Reltargets}
    /\ codec = <<>>

NextClassify ==
    \/ GetForeignRelSize
    \/ GetForeignPlan

SpecClassify == InitClassify /\ [][NextClassify]_vars

(***************************************************************************)
(* The read path of the decimal type: a result row of two decimal columns  *)
(* is converted column by column.  A number is the pair of its unscaled    *)
(* integer and its scale.                                                  *)
(***************************************************************************)
MaxVarintLen == 2   \* bytes of an unscaled integer on the wire
MaxScale == 2       \* the largest scale on the wire

WireBytes == {0, 5, 255}

RECURSIVE ByteStrings(_)
\* the byte strings of length 1..n
ByteStrings(n) ==
    IF n = 0 THEN {}
    ELSE LET shorter == ByteStrings(n - 1)
         IN  {<<b>> : b \in WireBytes} \cup shorter
             \cup {Append(s, b) : s \in shorter, b \in WireBytes}

\* what cass_value_get_decimal hands out for a column, or a null column
WireDecimals ==
    {[isnull |-> FALSE, varint |-> v, scale |-> sc] :
        v \in ByteStrings(MaxVarintLen), sc \in 0..MaxScale}
    \cup {[isnull |-> TRUE, varint |-> <<>>, scale |-> 0]}

\* scylla_get_decimal: the text handed to numeric_in, NullStr for a null column
scylla_get_decimal(value) == IF value.isnull THEN NullStr ELSE <<"0">>

DigitValue(ch) ==
    CASE ch = "0" -> 0 [] ch = "1" -> 1 [] ch = "2" -> 2 [] ch = "3" -> 3 [] ch = "4" -> 4
      [] ch = "5" -> 5 [] ch = "6" -> 6 [] ch = "7" -> 7 [] ch = "8" -> 8 [] ch = "9" -> 9

RECURSIVE DigitsValue(_)
DigitsValue(str) ==
    IF str = <<>> THEN 0
    ELSE 10 * DigitsValue(SubSeq(str, 1, Len(str) - 1)) + DigitValue(str[Len(str)])

\* numeric_in on "[-]digits[.digits]": the unscaled integer and the display scale
numeric_in(str) ==
    LET neg == str # <<>> /\ Head(str) = "-"
        body == IF neg THEN Tail(str) ELSE str
        dots == {i \in 1..Len(body) : body[i] = "."}
        dot == IF dots = {} THEN Len(body) + 1 ELSE Min(dots)
        digits == SubSeq(body, 1, dot - 1) \o SubSeq(body, dot + 1, Len(body))
        mag == DigitsValue(digits)
    IN  [unscaled |-> IF neg THEN 0 - mag ELSE mag,
         scale |-> IF dots = {} THEN 0 ELSE Len(body) - dot]

\* scylla_convert_to_pg for NUMERICOID
scylla_convert_to_pg(value) ==
    LET decimal_str == scylla_get_decimal(value)
    IN  IF value.isnull THEN [isnull |-> TRUE, unscaled |-> 0, scale |-> 0]
        ELSE [isnull |-> FALSE, unscaled |-> numeric_in(decimal_str).unscaled,
              scale |-> numeric_in(decimal_str).scale]

\* one column of the row is converted, in column order
ConvertToPg ==
    /\ kind = "codec"
    /\ Len(codec.datums) < Len(codec.row)
    /\ codec' = [codec EXCEPT
                    !.datums = Append(@, scylla_convert_to_pg(codec.row[Len(codec.datums) + 1]))]
    /\ UNCHANGED <<kind, rel, operation, pc, fdw_private, fmstate, fsstate, drv, host, clauses>>

InitCodec ==
    /\ kind = "codec"
    /\ rel \in {r \in ScanRelations : ~r.haskey}
    /\ operation = CMD_SELECT
    /\ pc = "running"
    /\ fdw_private = NoPlan
    /\ fmstate = FmNull
    /\ fsstate = FsNull
    /\ drv = DrvInit
    /\ host = HostInit
    /\ clauses = <<>>
    /\ codec \in {[row |-> r, datums |-> <<>>] : r \in {<<x, y>> : x, y \in WireDecimals}}

NextCodec == ConvertToPg

SpecCodec == InitCodec /\ [][NextCodec]_vars

(***************************************************************************)
(* The timestamp and date codecs.  A C integer of 16 n bits is the         *)
(* little-endian sequence of its n 16-bit limbs in two's complement, and   *)
(* the arithmetic wraps around as the operations of the build do (the      *)
(* module is compiled with the host's flags, which make signed overflow    *)
(* wrap).                                                                  *)
(***************************************************************************)
Limb == 256 * 256

Zero(n) == [i \in 1..n |-> 0]

RECURSIVE AddLimbs(_, _, _)
AddLimbs(x, y, carry) ==
    IF x = <<>> THEN <<>>
    ELSE LET s == Head(x) + Head(y) + carry
         IN  <<s % Limb>> \o AddLimbs(Tail(x), Tail(y), s \div Limb)

Complement(x) == [i \in 1..Len(x) |-> Limb - 1 - x[i]]

\* x + y, -x, x - y
Add(x, y) == AddLimbs(x, y, 0)
Neg(x) == AddLimbs(Complement(x), Zero(Len(x)), 1)
Sub(x, y) == AddLimbs(x, Complement(y), 1)

\* the sign bit
IsNeg(x) == x[Len(x)] >= Limb \div 2

RECURSIVE MulLimbs(_, _, _)
MulLimbs(x, k, carry) ==
    IF x = <<>> THEN <<>>
    ELSE LET p == Head(x) * k + carry
         IN  <<p % Limb>> \o MulLimbs(Tail(x), k, p \div Limb)

\* x * k for a constant 0 <= k < 2^15
Mul(x, k) == MulLimbs(x, k, 0)

\* the limbs 1..i of the unsigned quotient, long division from the top limb
RECURSIVE DivLimbs(_, _, _, _)
DivLimbs(x, k, i, rem) ==
    IF i = 0 THEN <<>>
    ELSE LET cur == rem * Limb + x[i]
         IN  DivLimbs(x, k, i - 1, cur % k) \o <<cur \div k>>

\* x / k of C for a constant 0 < k < 2^15: the quotient is truncated toward zero
Div(x, k) ==
    IF IsNeg(x) THEN Neg(DivLimbs(Neg(x), k, Len(x), 0))
    ELSE DivLimbs(x, k, Len(x), 0)

\* an int of C (|v| < 2^31) converted to n limbs
IntConst(v, n) ==
    LET mag == IF v < 0 THEN -v ELSE v
        u == [i \in 1..n |-> IF i = 1 THEN mag % Limb
                             ELSE IF i = 2 THEN mag \div Limb ELSE 0]
    IN  IF v < 0 THEN Neg(u) ELSE u

POSTGRES_EPOCH_JDATE == 2451545
UNIX_EPOCH_JDATE == 2440588
SECS_PER_DAY == 86400
USECS_PER_SEC == 1000000

\* (POSTGRES_EPOCH_JDATE - UNIX_EPOCH_JDATE) * SECS_PER_DAY * USECS_PER_SEC:
\* the first product is an int, the second a 64-bit one
EpochOffsetUsec ==
    Mul(Mul(IntConst((POSTGRES_EPOCH_JDATE - UNIX_EPOCH_JDATE) * SECS_PER_DAY, 4),
            USECS_PER_SEC \div 1000), 1000)

\* a decoder that moves the epoch the wrong way
TimestampToPgWrongWay(ms) ==
    LET usec == Mul(ms, 1000)
    IN  Add(usec, EpochOffsetUsec)

\* scylla_convert_to_pg, TIMESTAMPOID and TIMESTAMPTZOID: milliseconds since
\* the Unix epoch to microseconds since 2000-01-01
TimestampToPg(ms) ==
    LET usec == Mul(ms, 1000)
    IN  Sub(usec, EpochOffsetUsec)

\* an encoder that scales without moving the epoch
TimestampFromPgNoEpoch(ts) == Div(ts, 1000)

\* scylla_convert_from_pg, TIMESTAMPOID and TIMESTAMPTZOID: the value handed
\* to scylla_bind_timestamp
TimestampFromPg(ts) ==
    LET usec == Add(ts, EpochOffsetUsec)
        ms == Div(usec, 1000)
    IN  ms

\* 1 << 31 as the build evaluates it: the int with only the sign bit set
SignBit32 == <<0, Limb \div 2>>

\* a decoder that forgets the 2^31 bias of the wire value
DateToPgNoBias(wire) ==
    Sub(wire, IntConst(POSTGRES_EPOCH_JDATE - UNIX_EPOCH_JDATE, 2))

\* scylla_convert_to_pg, DATEOID: scylla_get_date returns the unsigned wire
\* value reinterpreted as int32 (the same limbs)
DateToPg(wire) ==
    LET scylla_date == wire
        unix_days == Sub(scylla_date, SignBit32)
        pg_date == Sub(unix_days, IntConst(POSTGRES_EPOCH_JDATE - UNIX_EPOCH_JDATE, 2))
    IN  pg_date

\* scylla_convert_from_pg, DATEOID: the uint32 handed to the binding call
DateFromPg(pg_date) ==
    LET unix_days == Add(pg_date, IntConst(POSTGRES_EPOCH_JDATE - UNIX_EPOCH_JDATE, 2))
        scylla_date == Add(unix_days, SignBit32)
    IN  scylla_date

\* a decoder that rounds to the nearest microsecond
TimeToPgRounding(ns) == Div(Add(ns, IntConst(500, 4)), 1000)

\* scylla_convert_to_pg, TIMEOID: nanoseconds since midnight to microseconds
TimeToPg(ns) ==
    LET usec == Div(ns, 1000)
    IN  usec

\* scylla_convert_from_pg, TIMEOID: the int64 handed to scylla_bind_int64
TimeFromPg(pg_time) ==
    LET ns == Mul(pg_time, 1000)
    IN  ns

\* a decimal literal, most significant digit first, as n limbs
RECURSIVE Decimal(_, _)
Decimal(digits, n) ==
    IF digits = <<>> THEN Zero(n)
    ELSE Add(Mul(Decimal(SubSeq(digits, 1, Len(digits) - 1), n), 10),
             IntConst(digits[Len(digits)], n))

MaxLegs == 2

Int64Max == <<Limb - 1, Limb - 1, Limb - 1, Limb \div 2 - 1>>
Int64Min == <<0, 0, 0, Limb \div 2>>

Near(bases, deltas, n) == {Add(b, IntConst(d, n)) : b \in bases, d \in deltas}

\* relational timestamps: around 2000-01-01, around 1970-01-01, between the
\* two, before 1970, after 2000, and at the ends of the 64-bit range
PgTimestamps ==
    Near({Zero(4),
          Neg(Decimal(<<9, 4, 6, 6, 8, 4, 8, 0, 0, 0, 0, 0, 0, 0, 0>>, 4)),
          Neg(Decimal(<<5, 0, 0, 0, 0, 0, 0, 0, 0, 0, 0, 0, 0, 0, 0>>, 4)),
          Neg(Decimal(<<2, 0, 0, 0, 0, 0, 0, 0, 0, 0, 0, 0, 0, 0, 0, 0>>, 4)),
          Decimal(<<7, 0, 0, 0, 0, 0, 0, 0, 0, 0, 0, 0, 0, 0, 0>>, 4),
          Int64Max, Int64Min},
         {-1000, -999, -1, 0, 1, 999, 1000}, 4)

\* wire timestamps: around 1970-01-01 and 2000-01-01, before 1970, and around
\* the largest values whose microseconds fit 64 bits
WireTimestamps ==
    Near({Zero(4),
          Decimal(<<9, 4, 6, 6, 8, 4, 8, 0, 0, 0, 0, 0>>, 4),
          Decimal(<<5, 0, 0, 0, 0, 0, 0, 0, 0, 0, 0, 0>>, 4),
          Neg(Decimal(<<1, 0, 0, 0, 0, 0, 0, 0, 0, 0, 0, 0, 0>>, 4)),
          Div(Int64Max, 1000), Div(Int64Min, 1000),
          Int64Max, Int64Min},
         {-1, 0, 1}, 4)

\* 24 hours in microseconds
UsecPerDay == Mul(Mul(IntConst(SECS_PER_DAY, 4), 1000), 1000)

\* relational times of day: from 00:00:00 to 24:00:00, around midnight, one
\* second, noon and the end of the day
PgTimes ==
    {t \in Near({Zero(4), Decimal(<<1, 0, 0, 0, 0, 0, 0>>, 4),
                 Decimal(<<4, 3, 2, 0, 0, 0, 0, 0, 0, 0, 0>>, 4), UsecPerDay},
                {-1000, -999, -1, 0, 1, 999, 1000}, 4) :
        ~IsNeg(t) /\ ~IsNeg(Sub(UsecPerDay, t))}

\* wire times: non-negative nanosecond counts around midnight, one second,
\* noon, the end of the day, and up to the largest 64-bit value
WireTimes ==
    {ns \in Near({Zero(4), Decimal(<<1, 0, 0, 0, 0, 0, 0, 0, 0, 0>>, 4),
                  Decimal(<<4, 3, 2, 0, 0, 0, 0, 0, 0, 0, 0, 0, 0, 0>>, 4),
                  Mul(UsecPerDay, 1000), Sub(Int64Max, IntConst(1807, 4))},
                 {-1001, -1000, -999, -501, -500, -499, -1, 0, 1, 499, 500, 501,
                  999, 1000, 1001, 1807}, 4) :
        ~IsNeg(ns)}

PgDates ==
    Near({Zero(2), IntConst(UNIX_EPOCH_JDATE - POSTGRES_EPOCH_JDATE, 2), SignBit32},
         {-2, -1, 0, 1, 2}, 2)

WireDates ==
    Near({Zero(2), SignBit32, IntConst(POSTGRES_EPOCH_JDATE - UNIX_EPOCH_JDATE, 2),
          Add(SignBit32, IntConst(POSTGRES_EPOCH_JDATE - UNIX_EPOCH_JDATE, 2))},
         {-2, -1, 0, 1, 2}, 2)

\* codec.hist is the value followed by its successive conversions;
\* codec.side tells which representation the last one is
ConvertTimeToPg ==
    /\ kind = "time" /\ codec.side = "wire"
    /\ Len(codec.hist) <= MaxLegs
    /\ LET v == codec.hist[Len(codec.hist)]
       IN  codec' = [codec EXCEPT !.side = "pg",
                        !.hist = Append(@, IF codec.typ = "date" THEN DateToPg(v)
                                           ELSE IF codec.typ = "time" THEN TimeToPg(v)
                                           ELSE TimestampToPg(v))]
    /\ UNCHANGED <<kind, rel, operation, pc, fdw_private, fmstate, fsstate, drv, host, clauses>>

ConvertTimeFromPg ==
    /\ kind = "time" /\ codec.side = "pg"
    /\ Len(codec.hist) <= MaxLegs
    /\ LET v == codec.hist[Len(codec.hist)]
       IN  codec' = [codec EXCEPT !.side = "wire",
                        !.hist = Append(@, IF codec.typ = "date" THEN DateFromPg(v)
                                           ELSE IF codec.typ = "time" THEN TimeFromPg(v)
                                           ELSE TimestampFromPg(v))]
    /\ UNCHANGED <<kind, rel, operation, pc, fdw_private, fmstate, fsstate, drv, host, clauses>>

InitTime ==
    /\ kind = "time"
    /\ rel \in {r \in ScanRelations : ~r.haskey}
    /\ operation = CMD_SELECT
    /\ pc = "running"
    /\ fdw_private = NoPlan
    /\ fmstate = FmNull
    /\ fsstate = FsNull
    /\ drv = DrvInit
    /\ host = HostInit
    /\ clauses = <<>>
    /\ codec \in
         {[typ |-> t, side |-> "pg", hist |-> <<v>>] :
              t \in {"timestamp", "timestamptz"}, v \in PgTimestamps}
         \cup {[typ |-> t, side |-> "wire", hist |-> <<v>>] :
              t \in {"timestamp", "timestamptz"}, v \in WireTimestamps}
         \cup {[typ |-> "date", side |-> "pg", hist |-> <<v>>] : v \in PgDates}
         \cup {[typ |-> "date", side |-> "wire", hist |-> <<v>>] : v \in WireDates}
         \cup {[typ |-> "time", side |-> "pg", hist |-> <<v>>] : v \in PgTimes}
         \cup {[typ |-> "time", side |-> "wire", hist |-> <<v>>] : v \in WireTimes}

NextTime == ConvertTimeToPg \/ ConvertTimeFromPg

SpecTime == InitTime /\ [][NextTime]_vars

(***************************************************************************)
(* Quoting: scylla_quote_identifier applied to an identifier.              *)
(***************************************************************************)
MaxIdentLen == 3

\* a lower-case letter, the underscore, a digit, an upper-case letter, the
\* double quote
IdentChars == {"a", "_", "1", "A", "\""}

Identifiers == SeqsOver(IdentChars, MaxIdentLen)

\* the constants of a pushed-down comparison.  A text, timestamp or date
\* value is written as the characters its output function gives; a bytea
\* value is the sequence of its bytes, each a pair of hex digits.
MaxLiteralLen == 3
LiteralChars == {"a", "'", "\\"}
QuotedTypes == {"text", "timestamp", "timestamptz", "date"}
NumberTypes == {"int4", "float8", "numeric"}
Numbers == {<<"7">>, <<"-", "1", ".", "5">>}
Uuids == {<<"0", "0", "0", "0", "-", "a">>}
Bytes == {<<"6", "1">>, <<"0", "0">>}
ByteaOutputs == {"hex", "escape"}

\* byteaout: \x and the hex digits under bytea_output = hex; under
\* bytea_output = escape a printable byte is itself and any other byte is a
\* backslash and three octal digits
RECURSIVE byteaout(_, _)
byteaout(value, bytea_output) ==
    IF bytea_output = "hex"
    THEN <<"\\", "x">> \o JoinWith(value, <<>>)
    ELSE IF value = <<>> THEN <<>>
    ELSE (IF Head(value) = <<"6", "1">> THEN <<"a">> ELSE <<"\\", "0", "0", "0">>)
         \o byteaout(Tail(value), bytea_output)

\* OidOutputFunctionCall(typoutput, node->constvalue)
OidOutputFunctionCall(typ, value, bytea_output) ==
    IF typ = "bytea" THEN byteaout(value, bytea_output) ELSE value

\* what extval + 2 reads when extval is shorter than two characters: the
\* bytes after the string's terminator, which may be a terminator or not
PastTheEnd(extval) == IF Len(extval) < 2 THEN {<<>>, <<"?">>} ELSE {<<>>}

Literals ==
    [typ : QuotedTypes, value : SeqsOver(LiteralChars, MaxLiteralLen) \cup {<<>>},
     bytea_output : {"hex"}]
    \cup [typ : NumberTypes, value : Numbers, bytea_output : {"hex"}]
    \cup [typ : {"uuid"}, value : Uuids, bytea_output : {"hex"}]
    \cup [typ : {"bool"}, value : {<<"t">>, <<"f">>}, bytea_output : {"hex"}]
    \cup [typ : {"bytea"}, value : SeqsOver(Bytes, 2) \cup {<<>>},
          bytea_output : ByteaOutputs]

\* deparseConst on a constant that is not null
DeparseConst ==
    /\ kind = "quote" /\ codec.what = "const" /\ ~codec.done
    /\ LET extval == OidOutputFunctionCall(codec.typ, codec.value, codec.bytea_output)
       IN  \E more \in (IF codec.typ = "bytea" THEN PastTheEnd(extval) ELSE {<<>>}) :
              codec' = [codec EXCEPT !.text = deparseConst(Const(codec.typ, extval)) \o more,
                                     !.done = TRUE]
    /\ UNCHANGED <<kind, rel, operation, pc, fdw_private, fmstate, fsstate, drv, host, clauses>>

QuoteIdentifier ==
    /\ kind = "quote" /\ codec.what = "ident" /\ ~codec.done
    /\ codec' = [codec EXCEPT !.text = cql_quote_identifier(codec.ident), !.done = TRUE]
    /\ UNCHANGED <<kind, rel, operation, pc, fdw_private, fmstate, fsstate, drv, host, clauses>>

InitQuote ==
    /\ kind = "quote"
    /\ rel \in {r \in ScanRelations : ~r.haskey}
    /\ operation = CMD_SELECT
    /\ pc = "running"
    /\ fdw_private = NoPlan
    /\ fmstate = FmNull
    /\ fsstate = FsNull
    /\ drv = DrvInit
    /\ host = HostInit
    /\ clauses = <<>>
    /\ codec \in
         {[what |-> "ident", ident |-> x, typ |-> "", value |-> <<>>,
           bytea_output |-> "hex", text |-> <<>>, done |-> FALSE] : x \in Identifiers}
         \cup {[what |-> "const", ident |-> <<>>, typ |-> l.typ, value |-> l.value,
                bytea_output |-> l.bytea_output, text |-> <<>>, done |-> FALSE] :
                  l \in Literals}

NextQuote == QuoteIdentifier \/ DeparseConst

SpecQuote == InitQuote /\ [][NextQuote]_vars

(***************************************************************************)
(* Properties of the modify planner and executor (specification Spec).     *)
(***************************************************************************)
KsTbl == <<"k", "s", ".", "t", "b", "l">>

\* "name = ?" for each name, joined by sep
Conditions(names, sep) == JoinWith([i \in 1..Len(names) |-> names[i] \o <<" = ?">>], sep)

\* the names of the live columns in table order, and those that are no key column
LiveCols(r) ==
    LET live == SetToSeq({i \in 1..natts(r) : ~r.tupdesc[i].attisdropped})
    IN  [i \in 1..Len(live) |-> r.tupdesc[live[i]].attname]

NonKeyCols(r) ==
    SelectSeq(LiveCols(r), LAMBDA n : \A i \in 1..Len(r.key) : r.key[i] # n)

\* a statement parameter bound to a datum
BoundTo(datum) ==
    [bound |-> TRUE, isnull |-> datum.isnull,
     value |-> IF datum.isnull THEN 0 ELSE datum.value]

\* the declared key exists and names only columns of the table
KeyUsable(r) ==
    r.haskey /\ \A i \in 1..Len(r.key) : AttnumOf(r.tupdesc, r.key[i]) # 0

\* C1: every per-row execution of a DELETE on a table with key K submits
\* "DELETE FROM ks.tbl WHERE k1 = ? [AND ...]" with exactly |K| bound parameters,
\* the i-th being the value of key column K[i] in the row being deleted.
C1_DeleteBindsKey ==
    (kind = "modify" /\ operation = CMD_DELETE) =>
        \A n \in 1..Len(drv.submitted) :
            LET s == drv.submitted[n]
            IN  /\ s.text = <<"DELETE FROM ">> \o KsTbl \o <<" WHERE ">>
                            \o Conditions(rel.key, <<" AND ">>)
                /\ Cardinality({i \in 1..Len(s.params) : s.params[i].bound}) = Len(rel.key)
                /\ \A i \in 1..Len(rel.key) :
                      /\ i <= Len(s.params)
                      /\ s.params[i] = BoundTo(Datum(n, AttnumOf(rel.tupdesc, rel.key[i])))

\* key {id}, the row id = 7: the DELETE is submitted with its one parameter unbound
C1_FailingInput ==
    /\ kind = "modify" /\ operation = CMD_DELETE
    /\ rel.key = <<<<"i", "d">>>> /\ rel.tupdesc[1].attname = <<"i", "d">>
    /\ Len(drv.submitted) = 1
    /\ host.calls[1].planSlot = <<[value |-> 7, isnull |-> FALSE]>>
    /\ drv.submitted[1].text = <<"DELETE FROM ">> \o KsTbl \o <<" WHERE ">>
                               \o <<"i", "d", " = ?">>
    /\ drv.submitted[1].params = <<Unbound>>

\* C2: every per-row execution of an UPDATE binds the new values of the non-key
\* columns in SET order and then the key values in WHERE order, wherever the key
\* columns stand in the table.
C2_UpdateBindOrder ==
    (kind = "modify" /\ operation = CMD_UPDATE) =>
        \A n \in 1..Len(drv.submitted) :
            LET s == drv.submitted[n]
                call == host.calls[n]
                nonkey == NonKeyCols(rel)
                cols == nonkey \o rel.key
                att(i) == AttnumOf(rel.tupdesc, cols[i])
            IN  /\ Len(s.params) = Len(cols)
                /\ \A i \in 1..Len(cols) :
                      IF i <= Len(nonkey)
                      THEN s.params[i] = BoundTo(call.slot[att(i)])
                      ELSE s.params[i] \in {BoundTo(call.slot[att(i)]),
                                            BoundTo(call.planSlot[i - Len(nonkey)])}

\* the table (id, a) with key {id}: the placeholder of "a = ?" gets the value of id
C2_FailingInput ==
    /\ kind = "modify" /\ operation = CMD_UPDATE
    /\ rel.key = <<<<"i", "d">>>>
    /\ rel.tupdesc = <<Attr(<<"i", "d">>, FALSE), Attr(<<"a">>, FALSE)>>
    /\ Len(drv.submitted) = 1
    /\ drv.submitted[1].text = <<"UPDATE ">> \o KsTbl \o <<" SET ", "a", " = ?", " WHERE ">>
                               \o <<"i", "d", " = ?">>
    /\ drv.submitted[1].params = <<BoundTo(Datum(1, 1)), BoundTo(Datum(1, 2))>>

HeldHandles ==
    SelectSeq(IF kind = "modify" THEN <<fmstate.prepared, fmstate.conn>>
              ELSE <<fsstate.iterator, fsstate.result, fsstate.conn>>,
              LAMBDA h : h # 0)

\* the release calls made so far on those handles
ReleasedHeld ==
    LET rel_calls == SelectSeq(drv.freed,
                               LAMBDA f : \E i \in 1..Len(HeldHandles) : HeldHandles[i] = f.id)
    IN  [i \in 1..Len(rel_calls) |-> rel_calls[i].id]

\* C10: after any number of End calls a scan has released its cursor, its result and
\* its connection, a modify its prepared handle and its connection, in that order
\* and each exactly once.
C10_CloseReleasesOnce ==
    (kind \in {"modify", "scan"} /\ pc = "ended") => ReleasedHeld = HeldHandles

\* the second End call of a modify releases the prepared handle and the connection again
C10_FailingInput ==
    /\ kind = "modify" /\ pc = "ended" /\ host.closes = 2
    /\ fmstate.prepared # 0
    /\ ReleasedHeld = HeldHandles \o HeldHandles

(***************************************************************************)
(* Properties of the per-row modify callbacks (specification Spec).        *)
(***************************************************************************)
ExecStep == kind = "modify" /\ Len(host'.calls) = Len(host.calls) + 1

FailurePrefix ==
    CASE operation = CMD_INSERT -> "INSERT failed: "
      [] operation = CMD_UPDATE -> "UPDATE failed: "
      [] OTHER -> "DELETE failed: "

\* C14: every row of a multi-row modification is sent on its own, as the
\* callback of that row runs.  When the remote refuses row N, that call raises
\* an error carrying the remote's message; the submissions of rows 1..N-1
\* stay as they were, successful, nothing is sent after the refusal (no
\* rollback, no second submission of row N), and no callback runs any more.
C14_RowFailure ==
    [][/\ pc # "error"
       /\ ExecStep =>
            LET n == Len(host'.calls)
                sent == drv'.submitted
            IN  /\ Len(drv.submitted) = n - 1
                /\ Len(sent) = n
                /\ SubSeq(sent, 1, n - 1) = drv.submitted
                /\ \A i \in 1..(n - 1) : sent[i].ok
                /\ sent[n].how = "prepared"
                /\ sent[n].ok => (pc' = "running" /\ host'.error = <<>>)
                /\ ~sent[n].ok =>
                      /\ pc' = "error"
                      /\ sent[n].error_msg \in RemoteMessages
                      /\ host'.error = <<FailurePrefix, sent[n].error_msg>>]_vars

C14_Witness ==
    /\ kind = "modify" /\ operation = CMD_UPDATE /\ pc = "error"
    /\ Len(host.calls) = 2 /\ Len(drv.submitted) = 2
    /\ drv.submitted[1].ok /\ ~drv.submitted[2].ok
    /\ drv.submitted[2].error_msg = "Write timeout"
    /\ host.error = <<"UPDATE failed: ", "Write timeout">>

\* the level the server's options configure
ConfiguredConsistency == scylla_string_to_consistency(ExtractConsistency(host.server))

\* C16: every statement a scan or modify executor submits is executed at the
\* consistency level of the server's consistency option, and at local_quorum
\* when the option is not set.
C16_ConfiguredConsistency ==
    \A i \in 1..Len(drv.submitted) : drv.submitted[i].consistency = ConfiguredConsistency

\* a server set to consistency 'one', and a row inserted at local_quorum
C16_FailingInput ==
    /\ kind = "modify" /\ operation = CMD_INSERT
    /\ host.server = <<DefElem(OPT_CONSISTENCY, <<"o", "n", "e">>)>>
    /\ Len(drv.submitted) = 1
    /\ drv.submitted[1].consistency = SCYLLA_CONSISTENCY_LOCAL_QUORUM
    /\ ConfiguredConsistency = 1

\* the handles of the bound statements released so far
ReleasedStatements == {i \in 1..Len(drv.freed) : drv.freed[i].kind = "statement"}

FetchStep == kind = "scan" /\ host'.fetches = host.fetches + 1

\* C11: once a fetch has found the end of the result, every later fetch (until a
\* rescan) returns the empty slot, raises nothing, submits nothing and leaves the
\* cursor where it is.
C11_EofSticky ==
    [][(FetchStep /\ fsstate.eof_reached) =>
          /\ host'.ret = "empty"
          /\ pc' = "running"
          /\ drv' = drv
          /\ fsstate' = fsstate]_vars

\* two rows, the fetch that found the end, and one fetch after it
C11_Witness ==
    /\ kind = "scan" /\ pc = "running" /\ fsstate.eof_reached
    /\ host.rescans = 0 /\ drv.rows = 2 /\ drv.pos = 2
    /\ host.fetches = 4 /\ host.ret = "empty"
    /\ Len(drv.submitted) = 1

\* a step that is one call of scyllaReScanForeignScan
RescanStep == kind = "scan" /\ host'.rescans = host.rescans + 1

\* the release calls a rescan is to make: the cursor, if there is one, then the result
RescanReleases ==
    (IF fsstate.iterator # 0 THEN <<[kind |-> "iterator", id |-> fsstate.iterator]>> ELSE <<>>)
    \o <<[kind |-> "result", id |-> fsstate.result]>>

\* C12: a rescan of a scan that has a result releases the cursor and the result,
\* clears the end-of-stream flag and keeps the connection and the statement text;
\* the first fetch after a rescan submits that text once, on that connection, and
\* its row is the first row of the new result.
C12_Rescan ==
    [][/\ (RescanStep /\ fsstate.result # 0) =>
             /\ drv'.freed = drv.freed \o RescanReleases
             /\ drv'.submitted = drv.submitted
             /\ fsstate'.iterator = 0 /\ fsstate'.result = 0
             /\ ~fsstate'.eof_reached
             /\ fsstate'.conn = fsstate.conn /\ fsstate'.query = fsstate.query
             /\ pc' = "running"
       /\ (FetchStep /\ host.rescans > 0 /\ host.ret = "none") =>
             /\ drv'.submitted = Append(drv.submitted, drv'.submitted[Len(drv'.submitted)])
             /\ drv'.submitted[Len(drv'.submitted)].text = fdw_private.query
             /\ drv'.submitted[Len(drv'.submitted)].conn = fsstate.conn
             /\ fsstate'.conn = fsstate.conn
             /\ host'.ret = "row" => drv'.pos = 1
             /\ (drv'.submitted[Len(drv'.submitted)].ok /\ fsstate'.iterator # 0
                 /\ drv'.rows > 0) => host'.ret = "row"]_vars

\* a scan that reached the end of two rows, was rescanned, and fetched a first row again
C12_Witness ==
    /\ kind = "scan" /\ pc = "running" /\ host.rescans = 1
    /\ host.fetches = 4 /\ host.ret = "row" /\ drv.pos = 1
    /\ Len(drv.submitted) = 2
    /\ drv.submitted[1].text = drv.submitted[2].text
    /\ drv.submitted[1].conn = drv.submitted[2].conn
    /\ drv.freed = <<[kind |-> "iterator", id |-> 3], [kind |-> "result", id |-> 2]>>

\* C13: opening a scan submits nothing, the first fetch is the first to submit the
\* planned text; a scan opened in EXPLAIN-only mode never connects, never submits,
\* and its close releases nothing.
C13_DeferredSubmit ==
    kind = "scan" =>
        /\ host.fetches = 0 => drv.submitted = <<>>
        /\ host.fetches > 0 =>
              /\ drv.submitted # <<>>
              /\ drv.submitted[1].text = fdw_private.query
              /\ drv.submitted[1].how = "query"
        /\ host.explain_only => (drv = DrvInit /\ fsstate = FsNull)

\* an EXPLAIN-only scan after its close
C13_Witness ==
    /\ kind = "scan" /\ host.explain_only /\ pc = "ended" /\ host.closes >= 1
    /\ drv.nh = 0 /\ drv.freed = <<>> /\ drv.submitted = <<>>

\* the attributes of the retrieved-attribute list
Retrieved == {fdw_private.target_attrs[k] : k \in 1..Len(fdw_private.target_attrs)}

\* C25: a fetch that returns a row has moved the cursor one row on, to the row
\* it returns: the cursor's row number is the number of rows returned since the
\* statement was submitted.  In the returned tuple an attribute that is dropped
\* or not in the retrieved-attribute list is null; a retrieved attribute holds
\* the value of the result column at the attribute's own place in that list,
\* so two retrieved attributes never hold the same result column.
C25_RowByColumnMap ==
    (kind = "scan" /\ host.ret = "row") =>
        /\ drv.pos = fsstate.fetch_ct
        /\ drv.pos \in 1..drv.rows
        /\ Len(host.slot) = natts(rel)
        /\ \A att \in 1..natts(rel) :
              IF rel.tupdesc[att].attisdropped \/ att \notin Retrieved
              THEN host.slot[att] = NullDatum
              ELSE \E k \in 1..Len(fdw_private.target_attrs) :
                      /\ fdw_private.target_attrs[k] = att
                      /\ \A j \in 1..Len(fdw_private.target_attrs) :
                             fdw_private.target_attrs[j] = att => j = k
                      /\ host.slot[att] = Cell(drv.pos, k - 1)
        /\ \A a, b \in Retrieved : a # b => host.slot[a] # host.slot[b]

\* the second row of a scan that fetches only the second of two columns: the
\* first attribute is null, the second holds result column 0
C25_Witness ==
    /\ kind = "scan" /\ host.ret = "row" /\ drv.pos = 2
    /\ natts(rel) = 2 /\ fdw_private.target_attrs = <<2>>
    /\ host.slot = <<NullDatum, Cell(2, 0)>>

\* the connection and the prepared handle of the executor that is open
HeldByExecutor ==
    IF kind = "modify" THEN {fmstate.conn, fmstate.prepared} \ {0}
    ELSE {fsstate.conn, fsstate.prepared} \ {0}

\* C28: when an executor that has its connection raises an error (the prepare
\* is rejected as a modification is opened, the statement of a fetch or of a
\* row is refused), the connection and the prepared handle, if there is one,
\* are released as the error is raised.
C28_ErrorReleases ==
    (kind \in {"modify", "scan"} /\ pc = "error") => HeldByExecutor \cap drv.live = {}

\* a modification whose prepare was rejected: the error is raised and the
\* connection is still open
C28_FailingInput ==
    /\ kind = "modify" /\ pc = "error"
    /\ fmstate.conn # 0 /\ fmstate.prepared = 0 /\ host.calls = <<>>
    /\ drv.live = {fmstate.conn} /\ drv.freed = <<>>

(***************************************************************************)
(* Properties of the classifier and of ALLOW FILTERING (SpecClassify).     *)
(***************************************************************************)
InSeq(x, seq) == \E i \in 1..Len(seq) : seq[i] = x

RECURSIVE RemoteEligible(_)
\* remote eligibility by the recursive rules: columns of the relation and literals of
\* a safe type, comparisons with one of the six operators, conjunctions, coercions
RemoteEligible(expr) ==
    CASE expr.tag = "Var" -> expr.rel = BaseRelid /\ expr.att > 0 /\ expr.typ \in PushdownSafeTypes
      [] expr.tag = "Const" -> expr.typ \in PushdownSafeTypes
      [] expr.tag = "OpExpr" ->
            /\ expr.ns = PG_CATALOG_NAMESPACE
            /\ expr.name \in {<<"=">>, <<"<">>, <<">">>, <<"<", "=">>, <<">", "=">>,
                              <<"!", "=">>, <<"<", ">">>}
            /\ \A i \in 1..Len(expr.args) : RemoteEligible(expr.args[i])
      [] expr.tag = "BoolExpr" ->
            expr.name = AND_EXPR /\ \A i \in 1..Len(expr.args) : RemoteEligible(expr.args[i])
      [] expr.tag = "RelabelType" -> RemoteEligible(expr.args[1])
      [] OTHER -> FALSE

\* C3: a boolean clause is in the remote list iff its operator is AND and every
\* child is remote-eligible; an OR or a NOT is never remote.
C3_BoolEligibility ==
    (kind = "planscan" /\ pc # "restrict") =>
        \A i \in 1..Len(clauses.input) :
            LET c == clauses.input[i]
            IN  c.tag = "BoolExpr" =>
                   (InSeq(c, clauses.remote_conds)
                       <=> (c.name = AND_EXPR
                            /\ \A j \in 1..Len(c.args) : RemoteEligible(c.args[j])))

\* WHERE NOT a, on the boolean column a, is classified remote
C3_FailingInput ==
    /\ kind = "planscan" /\ pc = "sized"
    /\ clauses.input = <<BoolExpr(NOT_EXPR, <<ColA>>)>>
    /\ clauses.remote_conds = clauses.input
    /\ clauses.local_conds = <<>>

RECURSIVE Unwrap(_)
\* the expression under its type coercions
Unwrap(expr) == IF expr.tag = "RelabelType" THEN Unwrap(expr.args[1]) ELSE expr

IsCol(expr, att) ==
    Unwrap(expr).tag = "Var" /\ Unwrap(expr).rel = BaseRelid /\ Unwrap(expr).att = att

\* an equality or a set membership on the column att
IsEqualityOn(expr, att) ==
    \/ /\ expr.tag = "OpExpr" /\ expr.name = <<"=">> /\ expr.ns = PG_CATALOG_NAMESPACE
       /\ Len(expr.args) = 2
       /\ (IsCol(expr.args[1], att) \/ IsCol(expr.args[2], att))
    \/ /\ expr.tag = "ScalarArrayOpExpr" /\ expr.isnull
       /\ Len(expr.args) >= 1 /\ IsCol(expr.args[1], att)

\* the three cases in which ALLOW FILTERING is to be forced
FilteringForced(r, remote) ==
    \/ remote = <<>>
    \/ ~r.haskey
    \/ \E i \in 1..Len(r.key) :
          ~\E j \in 1..Len(remote) : IsEqualityOn(remote[j], AttnumOf(r.tupdesc, r.key[i]))

\* C5: needs_allow_filtering is true, and the SELECT ends with " ALLOW FILTERING",
\* exactly when the remote list is empty, or no key is declared, or a declared key
\* column has no remote equality or set-membership predicate.
C5_AllowFilteringPolicy ==
    (kind = "planscan" /\ pc = "planned") =>
        /\ needs_allow_filtering(rel, clauses.remote_exprs)
              <=> FilteringForced(rel, clauses.remote_exprs)
        /\ clauses.sql[Len(clauses.sql)] = " ALLOW FILTERING"
              <=> FilteringForced(rel, clauses.remote_exprs)

\* key {id} and WHERE 5 = id: the equality is sent to the remote and the SELECT still
\* ends with ALLOW FILTERING
C5_FailingInput ==
    /\ kind = "planscan" /\ pc = "planned"
    /\ rel.key = <<<<"i", "d">>>>
    /\ clauses.input = <<Eq(Int4("5"), ColId)>>
    /\ clauses.remote_exprs = clauses.input
    /\ clauses.sql[Len(clauses.sql)] = " ALLOW FILTERING"

RECURSIVE ContainsOr(_)
ContainsOr(expr) ==
    \/ expr.tag = "BoolExpr" /\ expr.name = OR_EXPR
    \/ \E i \in 1..Len(expr.args) : ContainsOr(expr.args[i])

\* one "=" of pg_catalog between a column of the relation and a literal, both of a
\* pushdown-safe type
SimpleEquality(expr) ==
    /\ expr.tag = "OpExpr" /\ expr.name = <<"=">> /\ expr.ns = PG_CATALOG_NAMESPACE
    /\ Len(expr.args) = 2
    /\ expr.args[1].tag = "Var" /\ expr.args[1].rel = BaseRelid /\ expr.args[1].att > 0
    /\ expr.args[1].typ \in PushdownSafeTypes
    /\ expr.args[2].tag = "Const" /\ expr.args[2].typ \in PushdownSafeTypes

\* C6: a single equality between a safe column and a safe literal is classified
\* remote; a clause with an OR anywhere in its tree is kept whole in the local list,
\* and nothing of it reaches the remote list.
C6_EqualityRemoteOrLocal ==
    (kind = "planscan" /\ pc # "restrict") =>
        /\ \A i \in 1..Len(clauses.input) :
              LET c == clauses.input[i]
              IN  /\ SimpleEquality(c) => InSeq(c, clauses.remote_conds)
                  /\ ContainsOr(c) => InSeq(c, clauses.local_conds)
        /\ \A j \in 1..Len(clauses.remote_conds) : ~ContainsOr(clauses.remote_conds[j])
        /\ Len(clauses.remote_conds)
              <= Cardinality({i \in 1..Len(clauses.input) : ~ContainsOr(clauses.input[i])})

\* WHERE (id = 5 OR k2 = 3) AND id = 5: the OR whole in local, the equality in remote
C6_Witness ==
    /\ kind = "planscan" /\ pc = "sized"
    /\ clauses.input = <<IdEq5OrK2Eq3, IdEq5>>
    /\ clauses.remote_conds = <<IdEq5>>
    /\ clauses.local_conds = <<IdEq5OrK2Eq3>>

\* the columns the projection and the locally evaluated predicates refer to
NeededAttrs ==
    clauses.reltarget
    \cup UNION {pull_varattnos(clauses.local_exprs[i]) : i \in 1..Len(clauses.local_exprs)}

\* C17: the SELECT lists, in attribute order, exactly the non-dropped columns
\* that the projection or a locally evaluated predicate needs, the retrieved
\* attributes are the same columns in the same order, and when no column is
\* needed the list is the first non-dropped column alone.
C17_SelectList ==
    (kind = "planscan" /\ pc = "planned") =>
        LET live == {i \in 1..natts(rel) : ~rel.tupdesc[i].attisdropped}
            cols == IF NeededAttrs \cap live = {} THEN <<Min(live)>>
                    ELSE SetToSeq(NeededAttrs \cap live)
            list == JoinWith([i \in 1..Len(cols) |-> rel.tupdesc[cols[i]].attname], <<", ">>)
        IN  /\ clauses.retrieved_attrs = cols
            /\ Len(clauses.sql) >= Len(list) + 2
            /\ SubSeq(clauses.sql, 1, Len(list) + 2) = <<"SELECT ">> \o list \o <<" FROM ">>

\* SELECT a FROM t WHERE id = 5: the predicate is evaluated remotely, and the
\* statement fetches id as well
C17_FailingInput ==
    /\ kind = "planscan" /\ pc = "planned"
    /\ clauses.reltarget = {3}
    /\ clauses.input = <<Eq(ColId, Int4("5"))>>
    /\ clauses.local_exprs = <<>>
    /\ clauses.retrieved_attrs = <<1, 3>>
    /\ SubSeq(clauses.sql, 1, 6) = <<"SELECT ", "i", "d", ", ", "a", " FROM ">>

LacksName(r) ==
    \/ \A i \in 1..Len(r.options) : r.options[i].defname # OPT_KEYSPACE
    \/ \A i \in 1..Len(r.options) : r.options[i].defname # OPT_TABLE

\* C18: a foreign table without the keyspace option or without the table
\* option is rejected with an error, when its options are validated or at
\* the latest when a statement is planned, and no statement text is built
\* from a missing name.
C18_MissingNamesRejected ==
    (kind = "planscan" /\ LacksName(rel)) =>
        /\ pc \in {"restrict", "sized", "plan_error"}
        /\ clauses.sql = <<>>
        /\ fdw_private = NoPlan

\* CREATE FOREIGN TABLE t (...) OPTIONS (table 'tbl'), then SELECT a FROM t
C18_FailingInput ==
    /\ kind = "planscan" /\ pc = "crash"
    /\ rel.options = <<DefElem(OPT_TABLE, <<"t", "b", "l">>)>>
    /\ clauses.reltarget = {3} /\ clauses.input = <<>>
    /\ clauses.sql = <<>>

\* the clauses of list at the positions of picked, in the order of the list
Pick(list, picked) ==
    LET idx == SetToSeq(picked)
    IN  [i \in 1..Len(idx) |-> list[idx[i]]]

\* the positions of the clauses that are remote when classified on their own
RemoteAlone(list) ==
    {i \in 1..Len(list) : scylla_classify_conditions(<<list[i]>>).remote_conds # <<>>}

ComparisonNames ==
    {<<"=">>, <<"<">>, <<">">>, <<"<", "=">>, <<">", "=">>, <<"<", ">">>, <<"!", "=">>}

\* the clause is one of the classified remote conditions
InRemoteConds(c) == \E j \in 1..Len(clauses.remote_conds) : clauses.remote_conds[j] = c

EmptyConjunctAt(sql, p) ==
    /\ sql[p] \in {" WHERE ", " AND "}
    /\ \/ p = Len(sql)
       \/ sql[p + 1] \in {" AND ", " ALLOW FILTERING", ")"}

\* C29: every expression the classifier marked remote is rendered by the
\* deparser as a condition that is not empty, and the deparser does not flag
\* it as not pushable; so in the SELECT every conjunct after WHERE and after
\* each AND has its text.
C29_ClassifierDeparserAgree ==
    (kind = "planscan" /\ pc = "planned") =>
        /\ \A i \in 1..Len(clauses.remote_exprs) :
               LET d == deparseExpr(clauses.remote_exprs[i], rel)
               IN  d.can_pushdown /\ d.buf # <<>>
        /\ \A p \in 1..Len(clauses.sql) : ~EmptyConjunctAt(clauses.sql, p)
        /\ (\E p \in 1..Len(clauses.sql) : clauses.sql[p] = " WHERE ")
              <=> clauses.remote_exprs # <<>>

\* WHERE NOT a: the clause is remote, the deparser refuses it, and nothing
\* follows WHERE in the statement but ALLOW FILTERING
C29_FailingInput ==
    /\ kind = "planscan" /\ pc = "planned"
    /\ clauses.input = <<BoolExpr(NOT_EXPR, <<ColA>>)>>
    /\ clauses.remote_exprs = clauses.input /\ clauses.local_exprs = <<>>
    /\ ~deparseExpr(clauses.input[1], rel).can_pushdown
    /\ \E p \in 1..Len(clauses.sql) - 1 :
          clauses.sql[p] = " WHERE " /\ clauses.sql[p + 1] = " ALLOW FILTERING"

RECURSIVE Uncoerced(_)
\* the expression under its type-coercion nodes
Uncoerced(expr) == IF expr.tag = "RelabelType" THEN Uncoerced(expr.args[1]) ELSE expr

\* a remote "=" with the column attnum, bare or coerced, as either operand
EqualityOnColumn(expr, attnum) ==
    /\ expr.tag = "OpExpr" /\ get_cql_operator(expr) = <<"=">>
    /\ Len(expr.args) = 2
    /\ scylla_is_foreign_expr(expr)
    /\ \E side \in 1..2 :
          LET v == Uncoerced(expr.args[side])
          IN  v.tag = "Var" /\ v.rel = BaseRelid /\ v.att = attnum

\* the attribute numbers of the columns the primary_key option names
KeyAttnums(r) ==
    LET pk_str == GetOption(r.options, OPT_PRIMARY_KEY)
    IN  IF pk_str = NullStr THEN {}
        ELSE {AttnumOf(r.tupdesc, PkTokens(pk_str)[i]) : i \in 1..Len(PkTokens(pk_str))} \ {0}

\* C30: needs_allow_filtering finds the equality of a key column in every
\* form the classifier sends to the remote: the column as the left or as the
\* right operand of "=", bare or under a type coercion.
C30_EqualityForms ==
    (kind = "planscan" /\ pc = "planned") =>
        \A attnum \in KeyAttnums(rel) :
            (\E i \in 1..Len(clauses.remote_exprs) :
                 EqualityOnColumn(clauses.remote_exprs[i], attnum))
            => FoundEquality(attnum, clauses.remote_exprs)

\* key {id} and WHERE id::int4 = 5: the equality is remote, it is not found,
\* and the SELECT ends with ALLOW FILTERING
C30_FailingInput ==
    /\ kind = "planscan" /\ pc = "planned"
    /\ rel.key = <<<<"i", "d">>>>
    /\ clauses.input = <<Eq(RelabelType(ColId, "int4"), Int4("5"))>>
    /\ clauses.remote_exprs = clauses.input
    /\ ~FoundEquality(1, clauses.remote_exprs)
    /\ clauses.sql[Len(clauses.sql)] = " ALLOW FILTERING"

(***************************************************************************)
(* Properties of the decimal read path (SpecCodec).                        *)
(***************************************************************************)
RECURSIVE Pow(_, _)
Pow(b, n) == IF n = 0 THEN 1 ELSE b * Pow(b, n - 1)

RECURSIVE Unsigned(_)
\* the big-endian unsigned value of a byte string
Unsigned(bytes) ==
    IF bytes = <<>> THEN 0
    ELSE 256 * Unsigned(SubSeq(bytes, 1, Len(bytes) - 1)) + bytes[Len(bytes)]

\* the big-endian two's-complement value of a byte string
TwosComplement(bytes) ==
    IF bytes[1] >= 128 THEN Unsigned(bytes) - Pow(256, Len(bytes)) ELSE Unsigned(bytes)

\* u1 x 10^(-s1) = u2 x 10^(-s2)
SameNumber(u1, s1, u2, s2) == u1 * Pow(10, s2) = u2 * Pow(10, s1)

\* C4: a decimal column decodes to unscaled x 10^(-scale) of its wire value, and two
\* wire values that denote different numbers do not decode to the same number.
C4_DecimalDecode ==
    kind = "codec" =>
        /\ \A i \in 1..Len(codec.datums) :
              ~codec.row[i].isnull =>
                 /\ ~codec.datums[i].isnull
                 /\ SameNumber(codec.datums[i].unscaled, codec.datums[i].scale,
                               TwosComplement(codec.row[i].varint), codec.row[i].scale)
        /\ \A i, j \in 1..Len(codec.datums) :
              (/\ ~codec.row[i].isnull /\ ~codec.row[j].isnull
               /\ ~SameNumber(TwosComplement(codec.row[i].varint), codec.row[i].scale,
                              TwosComplement(codec.row[j].varint), codec.row[j].scale))
                 => ~SameNumber(codec.datums[i].unscaled, codec.datums[i].scale,
                                codec.datums[j].unscaled, codec.datums[j].scale)

\* the wire values 0.5 and -2.51 in one row both decode to 0
C4_FailingInput ==
    /\ kind = "codec"
    /\ codec.row = <<[isnull |-> FALSE, varint |-> <<5>>, scale |-> 1],
                     [isnull |-> FALSE, varint |-> <<255, 5>>, scale |-> 2]>>
    /\ Len(codec.datums) = 2
    /\ codec.datums[1] = codec.datums[2]
    /\ codec.datums[1].unscaled = 0

(***************************************************************************)
(* Properties of the timestamp and date codecs (SpecTime).                 *)
(***************************************************************************)
\* signed x <= y
LessEq(x, y) == IF IsNeg(x) # IsNeg(y) THEN IsNeg(x) ELSE ~IsNeg(Sub(y, x))

Between(lo, x, hi) == LessEq(lo, x) /\ LessEq(x, hi)

\* the representation of the first value of the history
Origin ==
    IF Len(codec.hist) % 2 = 1 THEN codec.side
    ELSE IF codec.side = "pg" THEN "wire" ELSE "pg"

IsTimestamp == kind = "time" /\ codec.typ \in {"timestamp", "timestamptz"}

RoundTrip == Len(codec.hist) >= 3

\* 10957 days in microseconds
Usec1970To2000 == Decimal(<<9, 4, 6, 6, 8, 4, 8, 0, 0, 0, 0, 0, 0, 0, 0>>, 4)

\* a whole number of milliseconds
WholeMs(t) == Mul(Div(t, 1000), 1000) = t

\* less than one millisecond apart
WithinOneMs(x, y) == Between(IntConst(-999, 4), Sub(x, y), IntConst(999, 4))

\* the relational timestamps whose microseconds since 1970 fit 64 bits, and
\* the wire timestamps whose microseconds fit 64 bits
PgInRange(t) == LessEq(t, Sub(Int64Max, Usec1970To2000))
WireInRange(ms) == Between(Div(Int64Min, 1000), ms, Div(Int64Max, 1000))

\* C15 as stated: decode(encode(t)) = t for every relational timestamp t and
\* encode(decode(ms)) = ms for every wire timestamp ms.
C15_ExactInverses ==
    (IsTimestamp /\ RoundTrip) => codec.hist[3] = codec.hist[1]

\* C15 amended: for the timestamps within range, decode(encode(t)) = t exactly
\* when t is a whole number of milliseconds, and is otherwise a whole number
\* of milliseconds less than one millisecond from t; encode(decode(ms)) = ms
\* for every wire value whose microseconds fit 64 bits.
C15_InversesOnMilliseconds ==
    (IsTimestamp /\ RoundTrip) =>
        LET first == codec.hist[1]
            back == codec.hist[3]
        IN  /\ (Origin = "pg" /\ PgInRange(first)) =>
                  /\ WholeMs(first) <=> back = first
                  /\ WholeMs(back)
                  /\ WithinOneMs(first, back)
            /\ (Origin = "wire" /\ WireInRange(first)) => back = first

C15_Witness ==
    /\ IsTimestamp /\ RoundTrip /\ Origin = "pg"
    /\ codec.hist[1] = Neg(Add(Usec1970To2000, IntConst(1000, 4)))
    /\ codec.hist[3] = codec.hist[1]

IsDate == kind = "time" /\ codec.typ = "date"

Decoded == Origin = "wire" /\ Len(codec.hist) >= 2
Encoded == Origin = "pg" /\ Len(codec.hist) >= 2

\* the wire value 2^31
Wire1970 == Decimal(<<2, 1, 4, 7, 4, 8, 3, 6, 4, 8>>, 2)

\* C19: date decode maps the wire value 2^31 to day -10957 (1970-01-01) and
\* 2^31 + 1 to day -10956, with 32-bit wrap-around, and date encode is its
\* inverse: encode(decode(w)) = w for every 32-bit wire value w.
C19_DateCodec ==
    (IsDate /\ Decoded) =>
        /\ codec.hist[1] = Wire1970 => codec.hist[2] = IntConst(-10957, 2)
        /\ codec.hist[1] = Add(Wire1970, IntConst(1, 2)) => codec.hist[2] = IntConst(-10956, 2)
        /\ RoundTrip => codec.hist[3] = codec.hist[1]

C19_Witness ==
    /\ IsDate /\ Decoded /\ RoundTrip
    /\ codec.hist[1] = Add(Wire1970, IntConst(1, 2))
    /\ codec.hist[2] = IntConst(-10956, 2)
    /\ codec.hist[3] = codec.hist[1]

\* the microseconds of a wire timestamp and their distance from 2000-01-01
\* both fit 64 bits
DecodeInRange(ms) ==
    /\ WireInRange(ms)
    /\ LessEq(Add(Int64Min, Usec1970To2000), Mul(ms, 1000))

\* C20: timestamp encode maps 0 microseconds (2000-01-01T00:00:00) to the
\* wire value 946684800000, timestamp decode maps the wire value 0 to
\* -946684800000000 microseconds (1970-01-01T00:00:00), and within the 64-bit
\* range decode(ms) = ms * 1000 - 10957 * 86400 * 10^6.
C20_TimestampEpochs ==
    IsTimestamp =>
        /\ (Encoded /\ codec.hist[1] = Zero(4)) =>
              codec.hist[2] = Decimal(<<9, 4, 6, 6, 8, 4, 8, 0, 0, 0, 0, 0>>, 4)
        /\ (Decoded /\ codec.hist[1] = Zero(4)) =>
              codec.hist[2] = Neg(Decimal(<<9, 4, 6, 6, 8, 4, 8, 0, 0, 0, 0, 0, 0, 0, 0>>, 4))
        /\ (Decoded /\ DecodeInRange(codec.hist[1])) =>
              codec.hist[2] =
                  Sub(Mul(codec.hist[1], 1000),
                      Mul(Mul(Mul(Mul(IntConst(10957, 4), 864), 100), 1000), 1000))

C20_Witness ==
    /\ IsTimestamp /\ Encoded /\ RoundTrip
    /\ codec.hist[1] = Zero(4)
    /\ codec.hist[2] = Decimal(<<9, 4, 6, 6, 8, 4, 8, 0, 0, 0, 0, 0>>, 4)
    /\ codec.hist[3] = Zero(4)

IsTime == kind = "time" /\ codec.typ = "time"

\* x mod 1000 for a 64-bit x >= 0, from its limbs: 2^16, 2^32 and 2^48 are
\* 536, 296 and 656 modulo 1000
Mod1000(x) == (x[1] + 536 * x[2] + 296 * x[3] + 656 * x[4]) % 1000

\* C26: the decoded time is the wire nanoseconds divided by 1000 with the
\* remainder dropped (never rounded up), the encoded time is the relational
\* microseconds times 1000; decode(encode(t)) = t for every t in
\* [0, 86400 * 10^6) and encode(decode(ns)) = ns - (ns mod 1000) for every
\* ns >= 0.
C26_TimeCodec ==
    IsTime =>
        LET first == codec.hist[1]
        IN  /\ (Decoded /\ ~IsNeg(first)) =>
                  /\ Add(Mul(codec.hist[2], 1000), IntConst(Mod1000(first), 4)) = first
                  /\ ~IsNeg(codec.hist[2])
                  /\ RoundTrip => codec.hist[3] = Sub(first, IntConst(Mod1000(first), 4))
            /\ (Encoded /\ ~IsNeg(first) /\ first # UsecPerDay
                 /\ LessEq(first, UsecPerDay)) =>
                  /\ Mod1000(codec.hist[2]) = 0
                  /\ Div(codec.hist[2], 1000) = first
                  /\ ~IsNeg(codec.hist[2])
                  /\ RoundTrip => codec.hist[3] = first

\* 00:00:00.000000999 on the wire decodes to 0 microseconds and encodes back
\* to 0 nanoseconds
C26_Witness ==
    /\ IsTime /\ Decoded /\ RoundTrip
    /\ codec.hist = <<IntConst(999, 4), Zero(4), Zero(4)>>

(***************************************************************************)
(* Properties of the quoting (SpecQuote).                                  *)
(***************************************************************************)
\* [a-z_][a-z0-9_]*
PlainIdentifier(x) ==
    /\ x # <<>>
    /\ x[1] \in LowerChars \cup {"_"}
    /\ \A i \in 1..Len(x) : x[i] \in LowerChars \cup DigitChars \cup {"_"}

\* doubled quotes halved; a quote that is not doubled makes the text ill-formed
RECURSIVE Halve(_)
Halve(t) ==
    IF t = <<>> THEN [ok |-> TRUE, s |-> <<>>]
    ELSE IF Head(t) # "\"" THEN
        LET rest == Halve(Tail(t)) IN [ok |-> rest.ok, s |-> <<Head(t)>> \o rest.s]
    ELSE IF Len(t) >= 2 /\ t[2] = "\"" THEN
        LET rest == Halve(Tail(Tail(t))) IN [ok |-> rest.ok, s |-> <<"\"">> \o rest.s]
    ELSE [ok |-> FALSE, s |-> <<>>]

\* un-quoting: the outer quotes stripped, the doubled quotes halved
Unquote(t) ==
    IF Len(t) >= 2 /\ t[1] = "\"" /\ t[Len(t)] = "\""
    THEN Halve(SubSeq(t, 2, Len(t) - 1))
    ELSE [ok |-> t # <<>> /\ t[1] # "\"", s |-> t]

\* C21: cql_quote_identifier returns the identifier unchanged iff it matches
\* [a-z_][a-z0-9_]*; otherwise the text is the identifier between double
\* quotes with its double quotes doubled, un-quoting gives back the
\* identifier, and no other identifier renders to the same text.
C21_QuoteIdentifier ==
    (kind = "quote" /\ codec.what = "ident" /\ codec.done) =>
        /\ PlainIdentifier(codec.ident) <=> codec.text = codec.ident
        /\ ~PlainIdentifier(codec.ident) =>
              /\ Len(codec.text) >= 2
              /\ codec.text[1] = "\"" /\ codec.text[Len(codec.text)] = "\""
        /\ Unquote(codec.text) = [ok |-> TRUE, s |-> codec.ident]
        /\ \A y \in Identifiers :
              y # codec.ident => cql_quote_identifier(y) # codec.text

C21_Witness ==
    /\ kind = "quote" /\ codec.what = "ident" /\ codec.done
    /\ codec.ident = <<"A", "\"", "a">>
    /\ codec.text = <<"\"", "A", "\"", "\"", "a", "\"">>

\* a single-quoted literal read back: the outer quotes stripped, doubled
\* quotes halved; a quote that is not doubled ends the literal early
RECURSIVE HalveApostrophes(_)
HalveApostrophes(t) ==
    IF t = <<>> THEN [ok |-> TRUE, s |-> <<>>]
    ELSE IF Head(t) # "'" THEN
        LET rest == HalveApostrophes(Tail(t))
        IN  [ok |-> rest.ok, s |-> <<Head(t)>> \o rest.s]
    ELSE IF Len(t) >= 2 /\ t[2] = "'" THEN
        LET rest == HalveApostrophes(Tail(Tail(t)))
        IN  [ok |-> rest.ok, s |-> <<"'">> \o rest.s]
    ELSE [ok |-> FALSE, s |-> <<>>]

ParseLiteral(t) ==
    IF Len(t) >= 2 /\ t[1] = "'" /\ t[Len(t)] = "'"
    THEN HalveApostrophes(SubSeq(t, 2, Len(t) - 1))
    ELSE [ok |-> FALSE, s |-> <<>>]

Rendered == kind = "quote" /\ codec.what = "const" /\ codec.done

\* C27: a text, timestamp or date literal is rendered between single quotes
\* with its single quotes doubled and reads back as the value, none of its
\* characters ending the literal early; a number or a UUID is rendered as it
\* is, a boolean as true or false, and a binary value as 0x followed by the
\* hex digits of its bytes.
C27_Literals ==
    Rendered =>
        /\ codec.typ \in QuotedTypes =>
              ParseLiteral(codec.text) = [ok |-> TRUE, s |-> codec.value]
        /\ codec.typ \in NumberTypes \cup {"uuid"} => codec.text = codec.value
        /\ codec.typ = "bool" =>
              codec.text = IF codec.value = <<"t">> THEN <<"true">> ELSE <<"false">>
        /\ codec.typ = "bytea" => codec.text = <<"0x">> \o JoinWith(codec.value, <<>>)

\* the binary value 'aa' when the session has bytea_output = escape: the
\* text is 0x with no digit after it
C27_FailingInput ==
    /\ Rendered /\ codec.typ = "bytea" /\ codec.bytea_output = "escape"
    /\ codec.value = <<<<"6", "1">>, <<"6", "1">>>>
    /\ codec.text = <<"0x">>

====
